---- MODULE Spec2Model ----
(***************************************************************************)
(* Model of ramble's shared directive language                              *)
(* (lib/ramble/ramble/language/shared_language.py): the directives that     *)
(* populate the attribute containers of an object definition, and the       *)
(* generic mutators purge_attr_vals / remove_attr_val / update_attr_val /   *)
(* copy_attr_val that edit them with glob matching.                         *)
(*                                                                          *)
(* Python values are modelled as tagged records:                            *)
(*   scalars  [ty |-> "str" | "NoneType" | "bool" | "int", v |-> <text>]    *)
(*   lists    [ty |-> "list", l |-> <sequence of strings>]                  *)
(*   dicts    [ty |-> "dict", d |-> <sequence of [k, val]>] (insertion      *)
(*            ordered, as Python dicts are)                                 *)
(* A missing attribute is the value Missing.                                *)
(***************************************************************************)
EXTENDS Integers, Sequences, FiniteSets, TLC

VARIABLES
    obj,      \* attribute containers of the (sub)type object being built
    parent,   \* attribute containers of the parent type's object
    shared,   \* attributes of obj that still are the parent's very object
    alias,    \* sets of paths of obj under which one and the same object is stored
    uses_spack, \* the uses_spack attribute of obj
    pc,       \* "run": directives may execute; "failed": a directive raised
    last,     \* the directive executed last (NoDirective before the first)
    err,      \* what the last directive raised (NoError if nothing)
    pre,      \* obj, parent, shared as they were before the last directive
    hist,     \* the directives executed on obj so far, in order
    queued,   \* per type, the directives its class body queued, in order
    built,    \* per type, the outcome of instantiating it (NotBuilt before)
    workload, \* a workload of the object: its executable list as declared
              \* (explicit) and after builtin injection (final)
    ws,       \* the workspace: the holder of its write transaction, the
              \* command invocations in flight with the progress of their
              \* pipeline per experiment, and the phase markers on disk
    xs        \* the experiment set under construction: the declarations it
              \* is given and what the expander and the builder made of them

vars == <<obj, parent, shared, alias, uses_spack, pc, last, err, pre, hist, queued, built, workload,
         ws, xs>>

----------------------------------------------------------------------------
(* Python values *)

Missing == [ty |-> "missing"]
NoneV == [ty |-> "NoneType", v |-> "None"]
PyStr(s) == [ty |-> "str", v |-> s]
PyBool(s) == [ty |-> "bool", v |-> s]
PyInt(s) == [ty |-> "int", v |-> s]
PyList(l) == [ty |-> "list", l |-> l]
PyDict(d) == [ty |-> "dict", d |-> d]
Pair(key, value) == [k |-> key, val |-> value]

\* hasattr(value, capability) for the capabilities the mutators probe
HasAttr(value, cap) ==
    CASE value.ty = "dict" ->
            cap \in {"__iter__", "__getitem__", "__contains__", "items", "clear", "pop"}
      [] value.ty = "list" ->
            cap \in {"__iter__", "__getitem__", "__contains__", "clear", "pop", "remove"}
      [] value.ty = "str" ->
            cap \in {"__iter__", "__getitem__", "__contains__"}
      [] OTHER -> FALSE

\* isinstance(value, type(old)): bool is a subclass of int
IsInstance(value, old) ==
    \/ value.ty = old.ty
    \/ (value.ty = "bool" /\ old.ty = "int")

----------------------------------------------------------------------------
(* Strings: TLA+ strings are atomic, so every string the model uses is      *)
(* spelled out as its sequence of characters.                               *)

Spell(s) ==
    CASE s = "hpl" -> <<"h", "p", "l">>
      [] s = "imkl" -> <<"i", "m", "k", "l">>
      [] s = "hpl2" -> <<"h", "p", "l", "2">>
      [] s = "h*" -> <<"h", "*">>
      [] s = "?pl" -> <<"?", "p", "l">>
      [] s = "[hi]*" -> <<"[", "h", "i", "]", "*">>
      [] s = "[!h]*" -> <<"[", "!", "h", "]", "*">>
      [] s = "zz" -> <<"z", "z">>
      [] s = "calculator" -> <<"c", "a", "l", "c", "u", "l", "a", "t", "o", "r">>
      [] s = "standard" -> <<"s", "t", "a", "n", "d", "a", "r", "d">>
      [] s = "calc*" -> <<"c", "a", "l", "c", "*">>
      [] s = "bcast" -> <<"b", "c", "a", "s", "t">>
      [] s = "pfact" -> <<"p", "f", "a", "c", "t">>
      [] s = "b*" -> <<"b", "*">>
      [] s = "bcast2" -> <<"b", "c", "a", "s", "t", "2">>
      [] s = "default" -> <<"d", "e", "f", "a", "u", "l", "t">>
      [] s = "description" -> <<"d", "e", "s", "c", "r", "i", "p", "t", "i", "o", "n">>
      [] s = "d*" -> <<"d", "*">>
      [] s = "spack_spec" -> <<"s", "p", "a", "c", "k", "_", "s", "p", "e", "c">>
      [] s = "compiler_spec" -> <<"c", "o", "m", "p", "i", "l", "e", "r", "_", "s", "p", "e", "c">>
      [] s = "compiler" -> <<"c", "o", "m", "p", "i", "l", "e", "r">>
      [] s = "nthreads" -> <<"n", "t", "h", "r", "e", "a", "d", "s">>
      [] s = "miniapp" -> <<"m", "i", "n", "i", "a", "p", "p">>
      [] s = "intel" -> <<"i", "n", "t", "e", "l">>
      [] s = "mkl" -> <<"m", "k", "l">>
      [] s = "m*" -> <<"m", "*">>
      [] s = "dodecatheon" -> <<"d", "o", "d", "e", "c", "a", "t", "h", "e", "o", "n">>
      [] s = "rfbgo" -> <<"r", "f", "b", "g", "o">>
      [] s = "gcc9" -> <<"g", "c", "c", "9">>
      [] s = "test_fom" -> <<"t", "e", "s", "t", "_", "f", "o", "m">>
      [] s = "test_fom2" -> <<"t", "e", "s", "t", "_", "f", "o", "m", "2">>
      [] s = "step_fom" -> <<"s", "t", "e", "p", "_", "f", "o", "m">>
      [] s = "test*" -> <<"t", "e", "s", "t", "*">>
      [] s = "units" -> <<"u", "n", "i", "t", "s">>
      [] s = "u*" -> <<"u", "*">>
      [] s = "" -> <<>>
      [] OTHER -> <<s>>

\* rank of a character in Python's string order (code point order)
Ord(c) ==
    CASE c = "!" -> 33 [] c = "*" -> 42 [] c = "2" -> 50 [] c = "9" -> 57
      [] c = "?" -> 63 [] c = "[" -> 91 [] c = "]" -> 93 [] c = "_" -> 95
      [] c = "a" -> 97 [] c = "b" -> 98 [] c = "c" -> 99 [] c = "d" -> 100
      [] c = "e" -> 101 [] c = "f" -> 102 [] c = "g" -> 103 [] c = "h" -> 104
      [] c = "i" -> 105 [] c = "k" -> 107 [] c = "l" -> 108 [] c = "m" -> 109
      [] c = "n" -> 110 [] c = "o" -> 111 [] c = "p" -> 112 [] c = "r" -> 114
      [] c = "s" -> 115 [] c = "t" -> 116 [] c = "u" -> 117 [] c = "z" -> 122
      [] OTHER -> 0

RECURSIVE SeqLess(_, _)
SeqLess(a, b) ==
    IF b = <<>> THEN FALSE
    ELSE IF a = <<>> THEN TRUE
    ELSE IF Ord(Head(a)) # Ord(Head(b)) THEN Ord(Head(a)) < Ord(Head(b))
    ELSE SeqLess(Tail(a), Tail(b))

\* a < b for Python strings
StrLess(a, b) == SeqLess(Spell(a), Spell(b))

----------------------------------------------------------------------------
(* fnmatch.fnmatch(name, pat) on POSIX: '*' any run, '?' any one character, *)
(* '[seq]' / '[!seq]' one character in / not in seq; a '[' with no closing  *)
(* ']' is literal.  (No '-' ranges: '-' is not in the model's alphabet.)    *)

\* index of the ']' closing the class opened at p[1] = "[", or 0
RECURSIVE ClassScan(_, _)
ClassScan(p, j) ==
    IF j > Len(p) THEN 0
    ELSE IF p[j] = "]" THEN j
    ELSE ClassScan(p, j + 1)

ClassEnd(p) ==
    LET j1 == IF Len(p) >= 2 /\ p[2] = "!" THEN 3 ELSE 2
        j2 == IF j1 <= Len(p) /\ p[j1] = "]" THEN j1 + 1 ELSE j1
    IN ClassScan(p, j2)

ClassHas(p, e, c) ==
    LET neg == p[2] = "!"
        lo == IF neg THEN 3 ELSE 2
        inset == \E i \in lo..(e - 1) : p[i] = c
    IN IF neg THEN ~inset ELSE inset

RECURSIVE GlobMatch(_, _)
GlobMatch(s, p) ==
    IF p = <<>> THEN s = <<>>
    ELSE IF Head(p) = "*"
        THEN GlobMatch(s, Tail(p)) \/ (s # <<>> /\ GlobMatch(Tail(s), p))
    ELSE IF Head(p) = "?"
        THEN s # <<>> /\ GlobMatch(Tail(s), Tail(p))
    ELSE IF Head(p) = "[" /\ ClassEnd(p) > 0
        THEN /\ s # <<>>
             /\ ClassHas(p, ClassEnd(p), Head(s))
             /\ GlobMatch(Tail(s), SubSeq(p, ClassEnd(p) + 1, Len(p)))
    ELSE s # <<>> /\ Head(s) = Head(p) /\ GlobMatch(Tail(s), Tail(p))

\* faulty variant: the pattern is compared literally
fnmatch_exact(name, pat) == name = pat
fnmatch(name, pat) == GlobMatch(Spell(name), Spell(pat))

----------------------------------------------------------------------------
(* Containers *)

\* dict operations on the insertion-ordered sequence of pairs
DictKeys(d) == [i \in 1..Len(d) |-> d[i].k]
DictHas(d, key) == \E i \in 1..Len(d) : d[i].k = key
DictIndex(d, key) == CHOOSE i \in 1..Len(d) : d[i].k = key
DictGet(d, key) == d[DictIndex(d, key)].val
DictSet(d, key, value) ==
    IF DictHas(d, key) THEN [d EXCEPT ![DictIndex(d, key)].val = value]
    ELSE Append(d, Pair(key, value))
DictPop(d, key) == SelectSeq(d, LAMBDA p : p.k # key)
KeySet(d) == {d[i].k : i \in 1..Len(d)}

\* list.remove(x): drops the first occurrence
RECURSIVE ListRemove(_, _)
ListRemove(l, x) ==
    IF l = <<>> THEN <<>>
    ELSE IF Head(l) = x THEN Tail(l)
    ELSE <<Head(l)>> \o ListRemove(Tail(l), x)

SeqSet(l) == {l[i] : i \in 1..Len(l)}

\* list(sorted(set(...)))
RECURSIVE SortSet(_)
SortSet(S) ==
    IF S = {} THEN <<>>
    ELSE LET m == CHOOSE x \in S : \A y \in S \ {x} : StrLess(x, y)
         IN <<m>> \o SortSet(S \ {m})

\* what `for k in value` yields
Iter(value) ==
    CASE value.ty = "dict" -> DictKeys(value.d)
      [] value.ty = "list" -> value.l
      [] value.ty = "str" -> Spell(value.v)
      [] OTHER -> <<>>

\* `key in value`
IsSubSeq(a, b) == \E i \in 0..(Len(b) - Len(a)) : SubSeq(b, i + 1, i + Len(a)) = a
Contains(value, key) ==
    CASE value.ty = "dict" -> DictHas(value.d, key)
      [] value.ty = "list" -> key \in SeqSet(value.l)
      [] value.ty = "str" -> IsSubSeq(Spell(key), Spell(value.v))
      [] OTHER -> FALSE

\* [k for k in value if fnmatch(k, pat)]
GlobMatchedKeys(value, pat) == SelectSeq(Iter(value), LAMBDA k : fnmatch(k, pat))

----------------------------------------------------------------------------
(* Errors.  what/path/key are what the message text carries. *)

NoError == [kind |-> "none"]
Raise(kind, what, path, key) == [kind |-> kind, what |-> what, path |-> path, key |-> key]
Ok(value) == [val |-> value, err |-> NoError]
Fail(value, e) == [val |-> value, err |-> e]

\* argument left at its default of None
NoKey == "<None>"
\* Python truthiness of an optional string argument
Truthy(s) == s # NoKey /\ s # ""

----------------------------------------------------------------------------
(* The object a directive runs on.  A world w holds the object under        *)
(* construction (obj), the parent type's object (parent), and the set of    *)
(* obj's attributes that are not bound on obj itself: reading one of them   *)
(* finds the parent's object (Python attribute lookup), so an in-place      *)
(* change of it is a change of the parent's object.                         *)

AttrNames == {"software_specs", "required_packages", "workload_variables",
              "tags", "maintainers", "name", "default_compilers",
              "figures_of_merit", "success_criteria", "builtins",
              "archive_patterns"}

\* getattr(obj, attr_name)
GetAttr(w, attr_name) ==
    IF attr_name \in w.shared THEN w.parent[attr_name] ELSE w.obj[attr_name]

\* hasattr(obj, attr_name)
HasObjAttr(w, attr_name) ==
    attr_name \in AttrNames /\ GetAttr(w, attr_name) # Missing

\* the object bound to attr_name is changed in place
MutateAttr(w, attr_name, value) ==
    IF attr_name \in w.shared
    THEN [w EXCEPT !.parent[attr_name] = value]
    ELSE [w EXCEPT !.obj[attr_name] = value]

\* obj.attr_name = value
BindAttr(w, attr_name, value) ==
    [w EXCEPT !.obj[attr_name] = value, !.shared = @ \ {attr_name}]

Done(w) == [w |-> w, err |-> NoError]
Raised(w, e) == [w |-> w, err |-> e]

\* _check_attrs(obj, message, *args) on a value: the first capability missing
MissingCaps(value, caps) == SelectSeq(caps, LAMBDA c : ~HasAttr(value, c))
_check_attrs(value, message, caps) ==
    IF MissingCaps(value, caps) = <<>> THEN NoError
    ELSE Raise("AttributeError", "does not contain attribute", message,
               Head(MissingCaps(value, caps)))

\* _check_attrs(obj, "Object", attr_name) on the object itself
_check_obj_attr(w, attr_name) ==
    IF HasObjAttr(w, attr_name) THEN NoError
    ELSE Raise("AttributeError", "does not contain attribute", <<"Object">>, attr_name)

----------------------------------------------------------------------------
(* Directives that populate containers *)

SoftwareSpec(name, spack_spec, compiler_spec, compiler) ==
    [op |-> "software_spec", name |-> name, spack_spec |-> spack_spec,
     compiler_spec |-> compiler_spec, compiler |-> compiler]
RequiredPackage(name) == [op |-> "required_package", name |-> name]
Maintainers(names) == [op |-> "maintainers", names |-> names]
Tags(values) == [op |-> "tags", values |-> values]

SpecEntry(d) ==
    PyDict(<<Pair("spack_spec", d.spack_spec),
             Pair("compiler_spec", d.compiler_spec),
             Pair("compiler", d.compiler)>>)

\* hasattr(obj, 'uses_spack') and getattr(obj, 'uses_spack')
\* faulty variant: an object without the attribute counts as using spack
UsesSpack_default(w) == w.uses_spack # PyBool("False")
UsesSpack(w) == w.uses_spack # Missing /\ w.uses_spack = PyBool("True")

\* obj.software_specs[name] = {...}, only on objects that use spack
\* faulty variant: an existing key keeps its first value
_execute_software_spec_keep(w, d) ==
    IF UsesSpack(w) /\ ~DictHas(GetAttr(w, "software_specs").d, d.name)
    THEN Done(MutateAttr(w, "software_specs",
              PyDict(DictSet(GetAttr(w, "software_specs").d, d.name, SpecEntry(d)))))
    ELSE Done(w)
_execute_software_spec(w, d) ==
    IF UsesSpack(w)
    THEN Done(MutateAttr(w, "software_specs",
              PyDict(DictSet(GetAttr(w, "software_specs").d, d.name, SpecEntry(d)))))
    ELSE Done(w)

\* obj.required_packages[name] = True
_execute_required_package(w, d) ==
    Done(MutateAttr(w, "required_packages",
         PyDict(DictSet(GetAttr(w, "required_packages").d, d.name, PyBool("True")))))

\* getattr(obj, attr_name, [])
GetAttrOrEmpty(w, attr_name) ==
    IF HasObjAttr(w, attr_name) THEN GetAttr(w, attr_name) ELSE PyList(<<>>)

\* obj.maintainers = list(sorted(set(maintainers_from_base + list(names))))
_execute_maintainer(w, d) ==
    Done(BindAttr(w, "maintainers",
         PyList(SortSet(SeqSet(GetAttrOrEmpty(w, "maintainers").l \o d.names)))))

\* obj.tags = list(sorted(set(tags_from_base + list(values))))
_execute_tag(w, d) ==
    Done(BindAttr(w, "tags",
         PyList(SortSet(SeqSet(GetAttrOrEmpty(w, "tags").l \o d.values)))))

\* obj.archive_patterns[pattern] = pattern
ArchivePattern(pattern) == [op |-> "archive_pattern", pattern |-> pattern]
_execute_archive_pattern(w, d) ==
    Done(MutateAttr(w, "archive_patterns",
         PyDict(DictSet(GetAttr(w, "archive_patterns").d, d.pattern, PyStr(d.pattern)))))

\* obj.figures_of_merit[name] = {...}
FigureOfMerit(name, fom_regex, group_name, log_file, units, contexts) ==
    [op |-> "figure_of_merit", name |-> name, fom_regex |-> fom_regex,
     group_name |-> group_name, log_file |-> log_file, units |-> units,
     contexts |-> contexts]
FomEntry(d) ==
    PyDict(<<Pair("log_file", d.log_file),
             Pair("regex", d.fom_regex),
             Pair("group_name", d.group_name),
             Pair("units", d.units),
             Pair("contexts", d.contexts)>>)
_execute_figure_of_merit(w, d) ==
    Done(MutateAttr(w, "figures_of_merit",
         PyDict(DictSet(GetAttr(w, "figures_of_merit").d, d.name, FomEntry(d)))))

\* obj.default_compilers[name] = {...}, only on objects that use spack
DefaultCompiler(name, spack_spec, compiler_spec, compiler) ==
    [op |-> "default_compiler", name |-> name, spack_spec |-> spack_spec,
     compiler_spec |-> compiler_spec, compiler |-> compiler]
_execute_default_compiler(w, d) ==
    IF UsesSpack(w)
    THEN Done(MutateAttr(w, "default_compilers",
              PyDict(DictSet(GetAttr(w, "default_compilers").d, d.name, SpecEntry(d)))))
    ELSE Done(w)

\* success_criteria: the mode is validated, then the criterion is stored
SuccessCriteria(name, mode, match) ==
    [op |-> "success_criteria", name |-> name, mode |-> mode, match |-> match]
valid_modes == {"string", "application_function", "fom_comparison"}
CriteriaEntry(d) ==
    PyDict(<<Pair("mode", PyStr(d.mode)),
             Pair("match", d.match),
             Pair("file", PyStr("{log_file}")),
             Pair("fom_name", NoneV),
             Pair("fom_context", PyStr("null")),
             Pair("formula", NoneV)>>)
\* faulty variant: the criterion is stored before the mode is validated
_execute_success_criteria_late(w, d) ==
    IF d.mode \notin valid_modes
    THEN Raised(MutateAttr(w, "success_criteria",
                    PyDict(DictSet(GetAttr(w, "success_criteria").d, d.name,
                                   CriteriaEntry(d)))),
                Raise("SystemExit", "is not valid", <<"Mode">>, d.mode))
    ELSE Done(MutateAttr(w, "success_criteria",
              PyDict(DictSet(GetAttr(w, "success_criteria").d, d.name, CriteriaEntry(d)))))
_execute_success_criteria(w, d) ==
    IF d.mode \notin valid_modes
    THEN Raised(w, Raise("SystemExit", "is not valid", <<"Mode">>, d.mode))
    ELSE Done(MutateAttr(w, "success_criteria",
              PyDict(DictSet(GetAttr(w, "success_criteria").d, d.name, CriteriaEntry(d)))))

\* register_builtin: the injection method is validated, then the builtin is
\* stored under its fully qualified name
RegisterBuiltin(name, required, injection_method) ==
    [op |-> "register_builtin", name |-> name, required |-> required,
     injection_method |-> injection_method]
supported_injection_methods == {"prepend", "append"}
\* obj._builtin_name.format(obj_name=obj.name, name=name) of an application
BuiltinName(name) ==
    CASE name = "env_vars" -> "builtin::env_vars"
      [] name = "test_builtin" -> "builtin::test_builtin"
      [] name = "epilogue" -> "builtin::epilogue"
      [] name = "prologue" -> "builtin::prologue"
      [] OTHER -> "builtin::"
\* faulty variant: every builtin is stored as required
BuiltinEntry_required(d) ==
    PyDict(<<Pair("name", PyStr(d.name)),
             Pair("required", PyBool("True")),
             Pair("injection_method", PyStr(d.injection_method))>>)
BuiltinEntry(d) ==
    PyDict(<<Pair("name", PyStr(d.name)),
             Pair("required", PyBool(IF d.required THEN "True" ELSE "False")),
             Pair("injection_method", PyStr(d.injection_method))>>)
\* faulty variant: any injection method is stored
_store_builtin_any(w, d) ==
    Done(MutateAttr(w, "builtins",
         PyDict(DictSet(GetAttr(w, "builtins").d, BuiltinName(d.name), BuiltinEntry(d)))))
_store_builtin(w, d) ==
    IF d.injection_method \notin supported_injection_methods
    THEN Raised(w, Raise("DirectiveError", "has an invalid injection method",
                         <<"Object", GetAttr(w, "name").v>>, d.injection_method))
    ELSE Done(MutateAttr(w, "builtins",
              PyDict(DictSet(GetAttr(w, "builtins").d, BuiltinName(d.name),
                             BuiltinEntry(d)))))

----------------------------------------------------------------------------
(* purge_attr_vals *)

PurgeAttrVals(attr_name) == [op |-> "purge_attr_vals", attr_name |-> attr_name]

\* attr_obj.clear()
\* faulty variant: the container keeps its elements
Cleared_kept(value) == value
Cleared(value) == IF value.ty = "dict" THEN PyDict(<<>>) ELSE PyList(<<>>)

_execute_purge_attr_vals(w, d) ==
    IF _check_obj_attr(w, d.attr_name) # NoError
    THEN Raised(w, _check_obj_attr(w, d.attr_name))
    ELSE LET attr_obj == GetAttr(w, d.attr_name)
             chk == _check_attrs(attr_obj, <<"Attribute container", d.attr_name>>, <<"clear">>)
         IN IF chk # NoError THEN Raised(w, chk)
            ELSE Done(MutateAttr(w, d.attr_name, Cleared(attr_obj)))

----------------------------------------------------------------------------
(* remove_attr_val *)

RemoveAttrVal(attr_name, name, keys) ==
    [op |-> "remove_attr_val", attr_name |-> attr_name, name |-> name, keys |-> keys]

\* value[key] = item, in place
SetItem(value, key, item) == PyDict(DictSet(value.d, key, item))

\* for k in globmatched_keys: remove_function(k)
RECURSIVE RemoveKeys(_, _)
RemoveKeys(value, ks) ==
    IF ks = <<>> THEN value
    ELSE IF value.ty = "list"
        THEN RemoveKeys(PyList(ListRemove(value.l, Head(ks))), Tail(ks))
    ELSE RemoveKeys(PyDict(DictPop(value.d, Head(ks))), Tail(ks))

\* the message of the "not found" error is not an f-string: it carries the
\* placeholders, not the path and the pattern
\* faulty variant: only the first matching key is removed
_remove_or_pop_item_first(value, message, name) ==
    LET chk == _check_attrs(value, message, <<"__iter__">>)
        globmatched_keys == GlobMatchedKeys(value, name)
    IN IF chk # NoError THEN Fail(value, chk)
       ELSE IF ~HasAttr(value, "remove") /\ ~HasAttr(value, "pop")
           THEN Fail(value, Raise("AttributeError", "No remove or pop", message, ""))
       ELSE IF Len(globmatched_keys) > 0
           THEN Ok(RemoveKeys(value, <<Head(globmatched_keys)>>))
       ELSE Fail(value, Raise("DirectiveError", "not found", <<"{message}">>, "{name}"))
\* faulty variant: no match is not an error
_remove_or_pop_item_silent(value, message, name) ==
    LET chk == _check_attrs(value, message, <<"__iter__">>)
        globmatched_keys == GlobMatchedKeys(value, name)
    IN IF chk # NoError THEN Fail(value, chk)
       ELSE IF ~HasAttr(value, "remove") /\ ~HasAttr(value, "pop")
           THEN Fail(value, Raise("AttributeError", "No remove or pop", message, ""))
       ELSE Ok(RemoveKeys(value, globmatched_keys))
_remove_or_pop_item(value, message, name) ==
    LET chk == _check_attrs(value, message, <<"__iter__">>)
        globmatched_keys == GlobMatchedKeys(value, name)
    IN IF chk # NoError THEN Fail(value, chk)
       ELSE IF ~HasAttr(value, "remove") /\ ~HasAttr(value, "pop")
           THEN Fail(value, Raise("AttributeError", "No remove or pop", message, ""))
       ELSE IF Len(globmatched_keys) > 0
           THEN Ok(RemoveKeys(value, globmatched_keys))
       ELSE Fail(value, Raise("DirectiveError", "not found", <<"{message}">>, "{name}"))

\* indexing a list or a str with a str key
IndexError(message, key) == Raise("TypeError", "indices must be integers", message, key)

\* faulty variant: the loop goes on after a failure and reports it at the end
RECURSIVE RemoveWithin_continue(_, _, _, _)
RemoveWithin_continue(attr_obj, ks, attr_name, name) ==
    IF ks = <<>> THEN Ok(attr_obj)
    ELSE IF attr_obj.ty # "dict" THEN Fail(attr_obj, IndexError(<<attr_name>>, Head(ks)))
    ELSE LET k == Head(ks)
             r == _remove_or_pop_item(DictGet(attr_obj.d, k), <<attr_name, k>>, name)
             rest == RemoveWithin_continue(SetItem(attr_obj, k, r.val), Tail(ks),
                                           attr_name, name)
         IN IF r.err # NoError THEN Fail(rest.val, r.err) ELSE rest

\* for k in globmatched_keys: _remove_or_pop_item(attr_obj[k], ...)
RECURSIVE RemoveWithin(_, _, _, _)
RemoveWithin(attr_obj, ks, attr_name, name) ==
    IF ks = <<>> THEN Ok(attr_obj)
    ELSE IF attr_obj.ty # "dict" THEN Fail(attr_obj, IndexError(<<attr_name>>, Head(ks)))
    ELSE LET k == Head(ks)
             r == _remove_or_pop_item(DictGet(attr_obj.d, k), <<attr_name, k>>, name)
         IN IF r.err # NoError THEN Fail(attr_obj, r.err)
            ELSE RemoveWithin(SetItem(attr_obj, k, r.val), Tail(ks), attr_name, name)

\* faulty variant: every sub-container is selected
RemoveKeysSelected_all(attr_obj, keys) == Iter(attr_obj)
RemoveKeysSelected(attr_obj, keys) == GlobMatchedKeys(attr_obj, keys)

_execute_remove_attr_val(w, d) ==
    IF _check_obj_attr(w, d.attr_name) # NoError
    THEN Raised(w, _check_obj_attr(w, d.attr_name))
    ELSE LET attr_obj == GetAttr(w, d.attr_name)
         IN IF Truthy(d.keys)
            THEN LET chk == _check_attrs(attr_obj, <<d.attr_name>>, <<"__iter__", "__getitem__">>)
                     globmatched_keys == RemoveKeysSelected(attr_obj, d.keys)
                 IN IF chk # NoError THEN Raised(w, chk)
                    ELSE IF Len(globmatched_keys) > 0
                        THEN LET r == RemoveWithin(attr_obj, globmatched_keys, d.attr_name, d.name)
                             IN [w |-> MutateAttr(w, d.attr_name, r.val), err |-> r.err]
                    ELSE Raised(w, Raise("DirectiveError", "not found", <<d.attr_name>>, d.keys))
            ELSE LET r == _remove_or_pop_item(attr_obj, <<d.attr_name>>, d.name)
                 IN [w |-> MutateAttr(w, d.attr_name, r.val), err |-> r.err]

----------------------------------------------------------------------------
(* update_attr_val *)

UpdateAttrVal(attr_name, name, keys, kwargs) ==
    [op |-> "update_attr_val", attr_name |-> attr_name, name |-> name,
     keys |-> keys, kwargs |-> kwargs]

\* for k, v in update_obj.items(): if k in kwargs:
\*     if not isinstance(kwargs[k], type(v)): raise
TypeMismatch(update_obj, kwargs) ==
    \E i \in 1..Len(update_obj.d) :
        /\ DictHas(kwargs, update_obj.d[i].k)
        /\ ~IsInstance(DictGet(kwargs, update_obj.d[i].k), update_obj.d[i].val)

\* for k, v in kwargs.items(): update_obj[k] = deepcopy(v)
RECURSIVE ApplyKwargs(_, _)
ApplyKwargs(update_obj, kwargs) ==
    IF kwargs = <<>> THEN update_obj
    ELSE ApplyKwargs(SetItem(update_obj, Head(kwargs).k, Head(kwargs).val), Tail(kwargs))

\* the loop of _update_items over the matched keys
RECURSIVE UpdateMatched(_, _, _, _)
UpdateMatched(obj_val, ks, message, kwargs) ==
    IF ks = <<>> THEN Ok(obj_val)
    ELSE IF obj_val.ty # "dict" THEN Fail(obj_val, IndexError(message, Head(ks)))
    ELSE LET key == Head(ks)
             update_obj == DictGet(obj_val.d, key)
             update_obj_name == Append(message, key)
             chk == _check_attrs(update_obj, update_obj_name, <<"items">>)
         IN IF chk # NoError THEN Fail(obj_val, chk)
            ELSE IF TypeMismatch(update_obj, kwargs)
                THEN Fail(obj_val, Raise("DirectiveError", "type mismatch", update_obj_name, ""))
            ELSE UpdateMatched(SetItem(obj_val, key, ApplyKwargs(update_obj, kwargs)),
                               Tail(ks), message, kwargs)

\* faulty variant: every key is updated, matching or not
UpdateKeysMatched_all(obj_val, name) == Iter(obj_val)
UpdateKeysMatched(obj_val, name) == GlobMatchedKeys(obj_val, name)

\* faulty variant: no match is not an error
_update_items_silent(obj_val, message, name, kwargs) ==
    LET chk == _check_attrs(obj_val, message, <<"__iter__", "__getitem__">>)
        globmatched_keys == UpdateKeysMatched(obj_val, name)
    IN IF chk # NoError THEN Fail(obj_val, chk)
       ELSE UpdateMatched(obj_val, globmatched_keys, message, kwargs)
_update_items(obj_val, message, name, kwargs) ==
    LET chk == _check_attrs(obj_val, message, <<"__iter__", "__getitem__">>)
        globmatched_keys == UpdateKeysMatched(obj_val, name)
    IN IF chk # NoError THEN Fail(obj_val, chk)
       ELSE IF Len(globmatched_keys) > 0
           THEN UpdateMatched(obj_val, globmatched_keys, message, kwargs)
       ELSE Fail(obj_val, Raise("DirectiveError", "not found", message, name))

\* for key in globmatched_keys: _update_items(attr_obj[key], ...)
RECURSIVE UpdateWithin(_, _, _, _, _)
UpdateWithin(attr_obj, ks, attr_name, name, kwargs) ==
    IF ks = <<>> THEN Ok(attr_obj)
    ELSE IF attr_obj.ty # "dict" THEN Fail(attr_obj, IndexError(<<attr_name>>, Head(ks)))
    ELSE LET key == Head(ks)
             r == _update_items(DictGet(attr_obj.d, key), <<attr_name, key>>, name, kwargs)
         IN IF r.err # NoError THEN Fail(SetItem(attr_obj, key, r.val), r.err)
            ELSE UpdateWithin(SetItem(attr_obj, key, r.val), Tail(ks), attr_name, name, kwargs)

\* _excluded_attrs(name, message, 'tags', 'maintainers')
\* faulty variant: no attribute is excluded
_excluded_attrs_none(attr_name) == NoError
_excluded_attrs(attr_name) ==
    IF attr_name \in {"tags", "maintainers"}
    THEN Raise("DirectiveError", "cannot be updated using generic update_attribute",
               <<attr_name>>, "")
    ELSE NoError

_execute_update_attr_val(w, d) ==
    IF _excluded_attrs(d.attr_name) # NoError
    THEN Raised(w, _excluded_attrs(d.attr_name))
    ELSE IF _check_obj_attr(w, d.attr_name) # NoError
    THEN Raised(w, _check_obj_attr(w, d.attr_name))
    ELSE IF Len(d.kwargs) > 0
    THEN LET attr_obj == GetAttr(w, d.attr_name)
         IN IF Truthy(d.keys)
            THEN LET chk == _check_attrs(attr_obj, <<d.attr_name>>, <<"__iter__", "__getitem__">>)
                     globmatched_keys == GlobMatchedKeys(attr_obj, d.keys)
                 IN IF chk # NoError THEN Raised(w, chk)
                    ELSE IF Len(globmatched_keys) > 0
                        THEN LET r == UpdateWithin(attr_obj, globmatched_keys,
                                                   d.attr_name, d.name, d.kwargs)
                             IN [w |-> MutateAttr(w, d.attr_name, r.val), err |-> r.err]
                    ELSE Raised(w, Raise("DirectiveError", "not found", <<d.attr_name>>, d.keys))
            ELSE LET r == _update_items(attr_obj, <<d.attr_name>>, d.name, d.kwargs)
                 IN [w |-> MutateAttr(w, d.attr_name, r.val), err |-> r.err]
    ELSE Raised(w, Raise("DirectiveError", "No kwargs provided", <<>>, ""))

----------------------------------------------------------------------------
(* copy_attr_val *)

CopyAttrVal(attr_name, name, newname, from_key, to_keys) ==
    [op |-> "copy_attr_val", attr_name |-> attr_name, name |-> name,
     newname |-> newname, from_key |-> from_key, to_keys |-> to_keys]

\* _copy_item(obj, obj_name, name): deepcopy(obj[name]), or "not found"
\* faulty variant: an absent source yields an empty entry
_copy_item_silent(value, obj_name, name) ==
    LET chk == _check_attrs(value, obj_name, <<"__contains__", "__getitem__">>)
    IN IF chk # NoError THEN Fail(Missing, chk)
       ELSE IF Contains(value, name)
           THEN IF value.ty = "dict" THEN Ok(DictGet(value.d, name))
                ELSE Fail(Missing, IndexError(obj_name, name))
       ELSE Ok(PyDict(<<>>))
_copy_item(value, obj_name, name) ==
    LET chk == _check_attrs(value, obj_name, <<"__contains__", "__getitem__">>)
    IN IF chk # NoError THEN Fail(Missing, chk)
       ELSE IF Contains(value, name)
           THEN IF value.ty = "dict" THEN Ok(DictGet(value.d, name))
                ELSE Fail(Missing, IndexError(obj_name, name))
       ELSE Fail(Missing, Raise("DirectiveError", "not found", obj_name, name))

\* _create_item(obj, message, newname, new_dict): obj[newname] = deepcopy(new_dict)
_create_item(value, message, newname, new_dict) ==
    LET chk == _check_attrs(value, message, <<"__getitem__">>)
    IN IF chk # NoError THEN Fail(value, chk)
       ELSE IF value.ty # "dict" THEN Fail(value, IndexError(message, newname))
       ELSE Ok(SetItem(value, newname, new_dict))

\* for key in globmatched_keys: _create_item(attr_obj[key], ...)
RECURSIVE CreateWithin(_, _, _, _, _)
CreateWithin(attr_obj, ks, attr_name, newname, new_dict) ==
    IF ks = <<>> THEN Ok(attr_obj)
    ELSE IF attr_obj.ty # "dict" THEN Fail(attr_obj, IndexError(<<attr_name>>, Head(ks)))
    ELSE LET key == Head(ks)
             r == _create_item(DictGet(attr_obj.d, key), <<attr_name, key>>, newname, new_dict)
         IN IF r.err # NoError THEN Fail(attr_obj, r.err)
            ELSE CreateWithin(SetItem(attr_obj, key, r.val), Tail(ks), attr_name,
                              newname, new_dict)

CopyTargets(attr_obj, to_keys) == GlobMatchedKeys(attr_obj, to_keys)

\* deepcopy(x), seen from the paths under which the object x is stored: the
\* result is a fresh object, stored under none of them
\* faulty variant: the result is x itself
deepcopy_same(refs) == refs
deepcopy(refs) == {}

\* the paths that hold one object once new_dict = deepcopy(obj[name]) has
\* been stored as deepcopy(new_dict) under every target path
StoredTogether(source, targets) == deepcopy(deepcopy({source}) \cup targets)

\* the world after the copy: what is stored together is recorded
Aliased(w, source, targets) ==
    IF Cardinality(StoredTogether(source, targets)) > 1
    THEN [w EXCEPT !.alias = @ \cup {StoredTogether(source, targets)}]
    ELSE w

_execute_copy_attr_val(w, d) ==
    IF _check_obj_attr(w, d.attr_name) # NoError
    THEN Raised(w, _check_obj_attr(w, d.attr_name))
    ELSE LET attr_obj == GetAttr(w, d.attr_name)
         IN IF Truthy(d.from_key)
            THEN LET chk == _check_attrs(attr_obj, <<d.attr_name>>,
                                         <<"__contains__", "__getitem__", "__iter__">>)
                 IN IF chk # NoError THEN Raised(w, chk)
                    ELSE IF ~Contains(attr_obj, d.from_key)
                        THEN Raised(w, Raise("DirectiveError", "not found",
                                             <<d.attr_name>>, d.from_key))
                    ELSE IF attr_obj.ty # "dict"
                        THEN Raised(w, IndexError(<<d.attr_name>>, d.from_key))
                    ELSE LET c == _copy_item(DictGet(attr_obj.d, d.from_key),
                                             <<d.attr_name, d.from_key>>, d.name)
                             globmatched_keys == CopyTargets(attr_obj, d.to_keys)
                         IN IF c.err # NoError THEN Raised(w, c.err)
                            ELSE IF Len(globmatched_keys) > 0
                                THEN LET r == CreateWithin(attr_obj, globmatched_keys,
                                                           d.attr_name, d.newname, c.val)
                                     IN [w |-> Aliased(MutateAttr(w, d.attr_name, r.val),
                                                       <<d.attr_name, d.from_key, d.name>>,
                                                       {<<d.attr_name, k, d.newname>> :
                                                            k \in SeqSet(globmatched_keys)}),
                                         err |-> r.err]
                            ELSE Raised(w, Raise("DirectiveError", "not found",
                                                 <<d.attr_name>>, d.to_keys))
            ELSE LET c == _copy_item(attr_obj, <<d.attr_name>>, d.name)
                 IN IF c.err # NoError THEN Raised(w, c.err)
                    ELSE LET r == _create_item(attr_obj, <<d.attr_name>>, d.newname, c.val)
                         IN [w |-> Aliased(MutateAttr(w, d.attr_name, r.val),
                                           <<d.attr_name, d.name>>,
                                           {<<d.attr_name, d.newname>>}),
                             err |-> r.err]

----------------------------------------------------------------------------
(* Executing a queued directive on an object *)

\* the object stored under a path of the object, <<attribute, key, ...>>
RECURSIVE Descend(_, _)
Descend(value, keys) ==
    IF keys = <<>> THEN value
    ELSE IF value.ty = "dict" /\ DictHas(value.d, Head(keys))
        THEN Descend(DictGet(value.d, Head(keys)), Tail(keys))
    ELSE Missing
PathValue(w, path) ==
    IF HasObjAttr(w, path[1]) THEN Descend(GetAttr(w, path[1]), Tail(path)) ELSE Missing

RECURSIVE Store(_, _, _)
Store(value, keys, v) ==
    IF keys = <<>> THEN v
    ELSE PyDict(DictSet(value.d, Head(keys),
                        Store(DictGet(value.d, Head(keys)), Tail(keys), v)))
RECURSIVE SetPaths(_, _, _)
SetPaths(w, paths, v) ==
    IF paths = {} THEN w
    ELSE LET p == CHOOSE q \in paths : TRUE
         IN SetPaths(MutateAttr(w, p[1], Store(GetAttr(w, p[1]), Tail(p), v)),
                     paths \ {p}, v)

\* an object changed in place is changed under every path that holds it
RECURSIVE Sync(_, _, _)
Sync(w0, w, classes) ==
    IF classes = {} THEN w
    ELSE LET c == CHOOSE x \in classes : TRUE
             live == {p \in c : PathValue(w, p) # Missing}
             changed == {p \in live : /\ PathValue(w0, p) # Missing
                                      /\ PathValue(w, p) # PathValue(w0, p)}
         IN IF changed = {} THEN Sync(w0, w, classes \ {c})
            ELSE Sync(w0, SetPaths(w, live, PathValue(w, CHOOSE p \in changed : TRUE)),
                      classes \ {c})

ExecuteDirective(w, d) ==
    CASE d.op = "software_spec" -> _execute_software_spec(w, d)
      [] d.op = "required_package" -> _execute_required_package(w, d)
      [] d.op = "maintainers" -> _execute_maintainer(w, d)
      [] d.op = "tags" -> _execute_tag(w, d)
      [] d.op = "purge_attr_vals" -> _execute_purge_attr_vals(w, d)
      [] d.op = "remove_attr_val" -> _execute_remove_attr_val(w, d)
      [] d.op = "update_attr_val" -> _execute_update_attr_val(w, d)
      [] d.op = "copy_attr_val" -> _execute_copy_attr_val(w, d)
      [] d.op = "archive_pattern" -> _execute_archive_pattern(w, d)
      [] d.op = "figure_of_merit" -> _execute_figure_of_merit(w, d)
      [] d.op = "default_compiler" -> _execute_default_compiler(w, d)
      [] d.op = "success_criteria" -> _execute_success_criteria(w, d)
      [] d.op = "register_builtin" -> _store_builtin(w, d)

Execute(w, d) ==
    CHOOSE out \in {[w |-> Sync(w, r.w, r.w.alias), err |-> r.err] :
                     r \in {ExecuteDirective(w, d)}} : TRUE

\* replaying a list of directives in order; the first that raises aborts
RECURSIVE Replay(_, _)
Replay(w, ds) ==
    IF ds = <<>> THEN Done(w)
    ELSE CHOOSE out \in {IF r.err # NoError THEN r ELSE Replay(r.w, Tail(ds)) :
                         r \in {Execute(w, Head(ds))}} : TRUE

----------------------------------------------------------------------------
(* Base types.  A base type is a class body: the plain class attributes     *)
(* `tags` and `maintainers` it has (Minixyce assigns tags = [...]; an       *)
(* object type may have no maintainers attribute at all, which is why the   *)
(* directive reads it with a default), its uses_spack flag, the workload    *)
(* variables its application-level directives declare, and the shared       *)
(* directives it queues.                                                    *)

VarEntry(default, description) ==
    PyDict(<<Pair("default", default), Pair("description", description)>>)

WorkloadVars(calc, std) ==
    PyDict(<<Pair("calculator", PyDict(calc)), Pair("standard", PyDict(std))>>)

BcastVar == Pair("bcast", VarEntry(PyStr("1"), PyStr("bcast")))
PfactVar == Pair("pfact", VarEntry(PyStr("0"), PyStr("pfact")))

BaseHpl ==
    [name |-> "hpl", uses_spack |-> PyBool("True"), tags |-> PyList(<<>>), maintainers |-> PyList(<<>>),
     workload_variables |-> WorkloadVars(<<BcastVar, PfactVar>>, <<BcastVar, PfactVar>>),
     directives |-> <<SoftwareSpec("hpl", PyStr("s1"), NoneV, NoneV),
                      RequiredPackage("hpl"),
                      Maintainers(<<"rfbgo">>),
                      Tags(<<"mkl">>)>>]

BaseMinixyce ==
    [name |-> "minixyce", uses_spack |-> PyBool("True"), tags |-> PyList(<<"miniapp">>), maintainers |-> PyList(<<>>),
     workload_variables |-> WorkloadVars(<<BcastVar>>, <<PfactVar>>),
     directives |-> <<DefaultCompiler("gcc9", PyStr("c1"), NoneV, NoneV),
                      SoftwareSpec("hpl", PyStr("s1"), NoneV, PyStr("gcc9")),
                      SoftwareSpec("imkl", PyStr("s1"), NoneV, NoneV),
                      UpdateAttrVal("software_specs", "imkl", NoKey,
                                    <<Pair("nthreads", PyInt("1"))>>),
                      RequiredPackage("hpl"),
                      RequiredPackage("imkl")>>]

BaseNoSpack ==
    [name |-> "basic", uses_spack |-> PyBool("False"), tags |-> PyList(<<"miniapp">>), maintainers |-> Missing,
     workload_variables |-> WorkloadVars(<<PfactVar>>, <<BcastVar>>),
     directives |-> <<SoftwareSpec("hpl", PyStr("s1"), NoneV, NoneV),
                      RequiredPackage("hpl")>>]

\* an object of a kind that defines no uses_spack attribute
BaseBare ==
    [name |-> "bare", uses_spack |-> Missing, tags |-> Missing, maintainers |-> Missing,
     workload_variables |-> PyDict(<<>>),
     directives |-> <<DefaultCompiler("gcc9", PyStr("c1"), NoneV, NoneV),
                      SoftwareSpec("hpl", PyStr("s1"), NoneV, NoneV)>>]

BaseTypes == {BaseHpl, BaseMinixyce, BaseNoSpack, BaseBare}

\* the containers of an object before any directive has run on it
BlankAttrs(base) ==
    [a \in AttrNames |->
        CASE a = "workload_variables" -> base.workload_variables
          [] a = "tags" -> base.tags
          [] a = "maintainers" -> base.maintainers
          [] a = "name" -> PyStr(base.name)
          [] OTHER -> PyDict(<<>>)]

\* the parent type's object: its class body's plain attributes are its own
ParentWorld(base) ==
    [obj |-> BlankAttrs(base), parent |-> BlankAttrs(base), shared |-> {},
     alias |-> {}, uses_spack |-> base.uses_spack]
ParentObject(base) == Replay(ParentWorld(base), base.directives).w.obj

\* a fresh object of a subtype: the dict containers the directives register
\* are its own; maintainers and tags are found on the parent until a
\* directive binds them on the object
SubtypeWorld(base) ==
    [obj |-> BlankAttrs(base), parent |-> ParentObject(base),
     shared |-> {"tags", "maintainers"}, alias |-> {}, uses_spack |-> base.uses_spack]

----------------------------------------------------------------------------
(* The directives a subtype's class body may queue *)

MaxExec == 2

NoDirective == [op |-> "none"]
NotBuilt == [status |-> "not built"]
Types == {"base", "sub"}
NoQueues == [t \in Types |-> <<>>]
NoWorkload == [has_list |-> FALSE, explicit |-> <<>>, final |-> <<>>]

NoExperimentSet == [at |-> "none"]

\* two command invocations against one workspace holding two experiments
Procs == {"p1", "p2"}
Experiments == {"e1", "e2"}
\* the progress of one experiment in one invocation: the phases finished (in
\* order) and in progress, those whose body ran, those that invoked their
\* external command and those that only recorded it, and the failure if any
BlankRun(status) ==
    [done |-> <<>>, active |-> {}, status |-> status, ran |-> {}, external |-> {},
     recorded |-> {}, failure |-> "none"]
NoRun == [i \in Experiments |-> BlankRun("none")]
NoOptions == [upload |-> FALSE, dry_run |-> FALSE, force |-> FALSE]
NoInvocation ==
    [cmd |-> "none", pos |-> "idle", opt |-> NoOptions, result |-> "none", run |-> NoRun]
NoWorkspace ==
    [lock |-> "free", inv |-> [p \in Procs |-> NoInvocation],
     markers |-> [i \in Experiments |-> {}]]

World ==
    [obj |-> obj, parent |-> parent, shared |-> shared, alias |-> alias,
     uses_spack |-> uses_spack]

SoftwareSpecDirectives ==
    {SoftwareSpec("hpl", PyStr("s2"), NoneV, NoneV),
     SoftwareSpec("imkl", PyStr("s2"), NoneV, PyStr("gcc9"))}
RequiredPackageDirectives == {RequiredPackage("imkl")}
MaintainersDirectives == {Maintainers(<<"dodecatheon">>)}
TagsDirectives == {Tags(<<"mkl", "intel">>)}
DefaultCompilerDirectives == {DefaultCompiler("gcc12", PyStr("c2"), NoneV, NoneV)}

PurgeDirectives ==
    {PurgeAttrVals(a) : a \in {"software_specs", "required_packages", "tags",
                               "maintainers", "workload_variables", "no_such_attr",
                               "default_compilers", "name"}}

RemoveDirectives ==
    {RemoveAttrVal("software_specs", n, NoKey) : n \in {"hpl", "h*", "?pl", "[hi]*", "*", "zz"}}
    \cup {RemoveAttrVal("software_specs", n, k) : n \in {"compiler", "zz"}, k \in {"hpl", "*"}}
    \cup {RemoveAttrVal("required_packages", n, NoKey) : n \in {"hpl", "*", "zz"}}
    \cup {RemoveAttrVal("required_packages", "hpl", "*")}
    \cup {RemoveAttrVal("tags", n, NoKey) : n \in {"miniapp", "m*", "zz"}}
    \cup {RemoveAttrVal("tags", "miniapp", "*")}
    \cup {RemoveAttrVal("workload_variables", n, NoKey) : n \in {"calc*", "zz"}}
    \cup {RemoveAttrVal("workload_variables", n, k) :
              n \in {"bcast", "b*", "zz"}, k \in {"calc*", "*", "zz"}}
    \cup {RemoveAttrVal("no_such_attr", "hpl", NoKey)}

KwDefault == <<Pair("default", PyStr("6"))>>
KwBcast == <<Pair("default", PyStr("6")), Pair("description", PyStr("B"))>>
KwDefaultNone == <<Pair("default", NoneV)>>
KwMixed == <<Pair("description", PyStr("B")), Pair("default", PyInt("6"))>>
KwSpec == <<Pair("spack_spec", PyStr("s3"))>>
KwCompiler == <<Pair("compiler", PyStr("gcc9"))>>
KwCompilerNone == <<Pair("compiler", NoneV)>>
KwThreadsInt == <<Pair("nthreads", PyInt("2"))>>
KwThreadsBool == <<Pair("nthreads", PyBool("True"))>>
KwVarStr == <<Pair("bcast", PyStr("6"))>>

UpdateDirectives ==
    {UpdateAttrVal("workload_variables", n, k, kw) :
         n \in {"bcast", "b*", "zz"}, k \in {"calc*", "*", "zz"},
         kw \in {KwBcast, KwDefaultNone, KwMixed}}
    \cup {UpdateAttrVal("workload_variables", "calc*", NoKey, kw) : kw \in {KwDefault, KwVarStr}}
    \cup {UpdateAttrVal("software_specs", n, NoKey, kw) :
              n \in {"hpl", "h*", "*", "zz"},
              kw \in {KwSpec, KwCompiler, KwCompilerNone, KwThreadsInt, KwThreadsBool, <<>>}}
    \cup {UpdateAttrVal("software_specs", "hpl2", NoKey, KwSpec)}
    \cup {UpdateAttrVal("software_specs", "spack_spec", "*", KwSpec)}
    \cup {UpdateAttrVal(a, n, k, kw) :
              a \in {"tags", "maintainers"}, n \in {"miniapp", "zz"},
              k \in {NoKey, "*"}, kw \in {KwDefault, <<>>}}
    \cup {UpdateAttrVal("required_packages", "hpl", NoKey, KwDefault)}
    \cup {UpdateAttrVal("no_such_attr", "hpl", NoKey, kw) : kw \in {KwDefault, <<>>}}

CopyDirectives ==
    {CopyAttrVal("software_specs", n, nn, NoKey, t) :
         n \in {"hpl", "h*", "zz"}, nn \in {"hpl2", "imkl"}, t \in {"*", "zz"}}
    \cup {CopyAttrVal("workload_variables", n, "bcast2", f, t) :
              n \in {"bcast", "b*", "zz"}, f \in {"calculator", "calc*", "zz"},
              t \in {"*", "calc*", "zz"}}
    \cup {CopyAttrVal("tags", n, "mkl", NoKey, "*") : n \in {"miniapp", "zz"}}
    \cup {CopyAttrVal("required_packages", "hpl", "hpl2", f, "*") : f \in {NoKey, "hpl"}}
    \cup {CopyAttrVal("no_such_attr", "hpl", "hpl2", NoKey, "*")}

----------------------------------------------------------------------------
(* Specification Spec: a subtype object is built by executing, one after    *)
(* the other, the directives of its class body on the object the inherited  *)
(* directives produced.                                                     *)

InitWorld(w) ==
    /\ obj = w.obj
    /\ parent = w.parent
    /\ shared = w.shared
    /\ alias = w.alias
    /\ uses_spack = w.uses_spack

Init ==
    /\ \E base \in BaseTypes : InitWorld(Replay(SubtypeWorld(base), base.directives).w)
    /\ pc = "run"
    /\ last = NoDirective
    /\ err = NoError
    /\ pre = World
    /\ hist = <<>>
    /\ queued = NoQueues
    /\ built = NotBuilt
    /\ workload = NoWorkload
    /\ ws = NoWorkspace
    /\ xs = NoExperimentSet

\* one directive of the class body is executed on the object
Step(d) ==
    /\ pc = "run"
    /\ Len(hist) < MaxExec
    /\ \E r \in {Execute(World, d)} :
          /\ obj' = r.w.obj
          /\ parent' = r.w.parent
          /\ shared' = r.w.shared
          /\ alias' = r.w.alias
          /\ uses_spack' = r.w.uses_spack
          /\ err' = r.err
          /\ pc' = IF r.err = NoError THEN "run" ELSE "failed"
    /\ last' = d
    /\ pre' = World
    /\ hist' = Append(hist, d)
    /\ UNCHANGED <<queued, built, workload, ws, xs>>

ExecSoftwareSpec == \E d \in SoftwareSpecDirectives : Step(d)
ExecRequiredPackage == \E d \in RequiredPackageDirectives : Step(d)
ExecMaintainers == \E d \in MaintainersDirectives : Step(d)
ExecTags == \E d \in TagsDirectives : Step(d)
ExecDefaultCompiler == \E d \in DefaultCompilerDirectives : Step(d)
ExecPurgeAttrVals == \E d \in PurgeDirectives : Step(d)
ExecRemoveAttrVal == \E d \in RemoveDirectives : Step(d)
ExecUpdateAttrVal == \E d \in UpdateDirectives : Step(d)
ExecCopyAttrVal == \E d \in CopyDirectives : Step(d)

Next ==
    \/ ExecSoftwareSpec
    \/ ExecRequiredPackage
    \/ ExecMaintainers
    \/ ExecTags
    \/ ExecDefaultCompiler
    \/ ExecPurgeAttrVals
    \/ ExecRemoveAttrVal
    \/ ExecUpdateAttrVal
    \/ ExecCopyAttrVal

Spec == Init /\ [][Next]_vars

----------------------------------------------------------------------------
(* Specification SpecTypes: two types, "base" and its subtype "sub".  The   *)
(* class bodies queue directives; instantiating the subtype replays the     *)
(* queued directives on a fresh object.                                     *)

MaxQueue == 2

TypeBase ==
    [name |-> "hpl", uses_spack |-> PyBool("True"), tags |-> PyList(<<"miniapp">>), maintainers |-> PyList(<<>>),
     workload_variables |-> WorkloadVars(<<BcastVar>>, <<PfactVar>>),
     directives |-> queued["base"]]

TypeDirectives ==
    {SoftwareSpec("hpl", PyStr("s1"), NoneV, NoneV),
     SoftwareSpec("hpl", PyStr("s2"), NoneV, PyStr("gcc9")),
     SoftwareSpec("imkl", PyStr("s1"), NoneV, NoneV),
     RemoveAttrVal("software_specs", "hpl", NoKey),
     PurgeAttrVals("software_specs"),
     UpdateAttrVal("software_specs", "h*", NoKey, KwSpec),
     CopyAttrVal("software_specs", "hpl", "hpl2", NoKey, "*")}

\* the directives replayed when a type is instantiated: those of its
\* ancestors first, then its own, each list in declaration order
DirectivesToBeExecuted(t) ==
    IF t = "base" THEN queued["base"] ELSE queued["base"] \o queued["sub"]

InitTypes ==
    /\ queued = NoQueues
    /\ built = NotBuilt
    /\ workload = NoWorkload
    /\ ws = NoWorkspace
    /\ xs = NoExperimentSet
    /\ pc = "declare"
    /\ InitWorld(ParentWorld([TypeBase EXCEPT !.directives = <<>>]))
    /\ last = NoDirective
    /\ err = NoError
    /\ pre = World
    /\ hist = <<>>

\* calling a directive inside the body of type t queues it; nothing runs
\* faulty variant: the directive is executed on the spot as well as queued
Declare_eager(t, d) ==
    /\ pc = "declare"
    /\ Len(queued[t]) < MaxQueue
    /\ queued' = [queued EXCEPT ![t] = Append(@, d)]
    /\ \E r \in {Execute(World, d)} :
          /\ obj' = r.w.obj
          /\ parent' = r.w.parent
          /\ shared' = r.w.shared
          /\ alias' = r.w.alias
          /\ uses_spack' = r.w.uses_spack
          /\ err' = r.err
    /\ UNCHANGED <<pc, last, pre, hist, built, workload, ws, xs>>
Declare(t, d) ==
    /\ pc = "declare"
    /\ Len(queued[t]) < MaxQueue
    /\ queued' = [queued EXCEPT ![t] = Append(@, d)]
    /\ UNCHANGED <<obj, parent, shared, alias, uses_spack, pc, last, err, pre, hist, built,
                   workload, ws, xs>>

DeclareBase == \E d \in TypeDirectives : Declare("base", d)
DeclareSub == \E d \in TypeDirectives : Declare("sub", d)

\* the subtype is instantiated: its replay list runs on a fresh object; a
\* directive that raises aborts the construction
Instantiate ==
    /\ pc = "declare"
    /\ \E r \in {Replay(SubtypeWorld(TypeBase), DirectivesToBeExecuted("sub"))} :
          /\ obj' = r.w.obj
          /\ parent' = r.w.parent
          /\ shared' = r.w.shared
          /\ alias' = r.w.alias
          /\ uses_spack' = r.w.uses_spack
          /\ err' = r.err
          /\ pc' = IF r.err = NoError THEN "built" ELSE "failed"
          /\ built' = [status |-> IF r.err = NoError THEN "ok" ELSE "failed"]
    /\ hist' = DirectivesToBeExecuted("sub")
    /\ pre' = World
    /\ UNCHANGED <<last, queued, workload, ws, xs>>

NextTypes ==
    \/ DeclareBase
    \/ DeclareSub
    \/ Instantiate

SpecTypes == InitTypes /\ [][NextTypes]_vars

----------------------------------------------------------------------------
(* Specification SpecConfig: the same two types, whose class bodies call    *)
(* the directives that validate their arguments (register_builtin,          *)
(* success_criteria) next to ones that do not.                              *)

StatusFom ==
    FigureOfMerit("time", PyStr("t=(?P<t>.*)"), PyStr("t"), PyStr("{log_file}"),
                  PyStr("s"), PyList(<<>>))

ConfigDirectives ==
    {RegisterBuiltin("env_vars", TRUE, "prepend"),
     RegisterBuiltin("epilogue", TRUE, "append"),
     RegisterBuiltin("test_builtin", FALSE, "append"),
     RegisterBuiltin("test_builtin", TRUE, "middle"),
     SuccessCriteria("status", "string", PyStr("done")),
     SuccessCriteria("status", "bogus", NoneV),
     ArchivePattern("*.log"),
     StatusFom}

DeclareBaseConfig == \E d \in ConfigDirectives : Declare("base", d)
DeclareSubConfig == \E d \in ConfigDirectives : Declare("sub", d)

NextConfig ==
    \/ DeclareBaseConfig
    \/ DeclareSubConfig
    \/ Instantiate

SpecConfig == InitTypes /\ [][NextConfig]_vars

----------------------------------------------------------------------------
(* Specification SpecFom: figure_of_merit declarations of a class body,     *)
(* followed by generic mutators on the figures_of_merit container.          *)

TestFom ==
    FigureOfMerit("test_fom", PyStr("(?P<test>[0-9]+)"), PyStr("test"),
                  PyStr("log_file"), PyStr("s"), PyList(<<>>))
StepFom ==
    FigureOfMerit("step_fom", PyStr("(?P<step>[0-9]+)"), PyStr("step"),
                  PyStr("log_file"), PyStr(""), PyList(<<"step">>))
FomDirectives == {TestFom, StepFom}

\* the figure_of_merit declarations of the inherited class bodies
InheritedFoms == {<<>>, <<TestFom>>, <<TestFom, StepFom>>}

KwUnits == <<Pair("units", PyStr("ms"))>>
KwUnitsInt == <<Pair("units", PyInt("1"))>>
KwScale == <<Pair("scale", PyStr("1"))>>

FomMutators ==
    {PurgeAttrVals("figures_of_merit")}
    \cup {RemoveAttrVal("figures_of_merit", n, NoKey) : n \in {"test_fom", "test*", "zz"}}
    \cup {RemoveAttrVal("figures_of_merit", n, k) :
              n \in {"units", "u*", "zz"}, k \in {"test_fom", "*"}}
    \cup {UpdateAttrVal("figures_of_merit", n, NoKey, kw) :
              n \in {"test_fom", "*"}, kw \in {KwUnits, KwUnitsInt, KwScale}}
    \cup {UpdateAttrVal("figures_of_merit", "units", "*", KwUnits)}
    \cup {CopyAttrVal("figures_of_merit", "test_fom", "test_fom2", NoKey, "*")}
    \cup {CopyAttrVal("figures_of_merit", "units", "regex", f, "*") :
              f \in {"test_fom", "step_fom"}}

InitFom ==
    /\ \E inherited \in InheritedFoms :
          InitWorld(Replay(SubtypeWorld(BaseNoSpack), inherited).w)
    /\ pc = "run"
    /\ last = NoDirective
    /\ err = NoError
    /\ pre = World
    /\ hist = <<>>
    /\ queued = NoQueues
    /\ built = NotBuilt
    /\ workload = NoWorkload
    /\ ws = NoWorkspace
    /\ xs = NoExperimentSet

ExecFigureOfMerit == \E d \in FomDirectives : Step(d)
ExecFomMutator == \E d \in FomMutators : Step(d)

NextFom ==
    \/ ExecFigureOfMerit
    \/ ExecFomMutator

SpecFom == InitFom /\ [][NextFom]_vars

----------------------------------------------------------------------------
(* Specification SpecPipeline: two invocations of the workspace commands    *)
(* setup, analyze and mirror against one workspace.  A command runs its     *)
(* pipeline over the experiment set; the runner takes each experiment       *)
(* through the phases of the pipeline and may work on different experiments *)
(* at the same time.                                                        *)

Pipelines == {"setup", "analyze", "mirror"}

PhasesOf(pipeline) ==
    CASE pipeline = "setup" ->
             <<"make_directories", "render_executables", "render_software_environment">>
      [] pipeline = "analyze" ->
             <<"extract_foms", "evaluate_success_criteria", "write_results">>
      [] pipeline = "mirror" -> <<"package", "upload">>
      [] OTHER -> <<>>
PhaseSet(pipeline) == {PhasesOf(pipeline)[k] : k \in 1..Len(PhasesOf(pipeline))}

\* the commands whose pipeline runs inside "with ws.write_transaction():"
InTransaction(cmd) == cmd \in {"setup", "analyze"}

appvars ==
    <<obj, parent, shared, alias, uses_spack, pc, last, err, pre, hist, queued, built,
      workload, xs>>

FreshRun == [i \in Experiments |-> BlankRun("ready")]

\* the options a command can be given: --upload for analyze, --dry-run for
\* setup and mirror; a forced re-run is an option of the runner
OptionsOf(cmd) ==
    {NoOptions, [NoOptions EXCEPT !.force = TRUE]}
    \cup (IF cmd = "analyze" THEN {[NoOptions EXCEPT !.upload = TRUE]} ELSE {})
    \cup (IF cmd \in {"setup", "mirror"} THEN {[NoOptions EXCEPT !.dry_run = TRUE]} ELSE {})

\* a command is issued; it goes on to its write transaction, or straight to
\* its pipeline when it has none
Invoke(p, cmd, opt) ==
    /\ ws.inv[p].pos = "idle"
    /\ opt \in OptionsOf(cmd)
    /\ ws' = [ws EXCEPT !.inv[p] =
                 [cmd |-> cmd,
                  pos |-> IF InTransaction(cmd) THEN "waiting" ELSE "running",
                  opt |-> opt,
                  result |-> "none",
                  run |-> FreshRun]]
    /\ UNCHANGED appvars

\* the write transaction is entered when no other invocation holds it
Acquire(p) ==
    /\ ws.inv[p].pos = "waiting"
    /\ ws.lock = "free"
    /\ ws' = [ws EXCEPT !.lock = p, !.inv[p].pos = "running"]
    /\ UNCHANGED appvars

\* the attempt to enter it times out while another invocation holds it
Reject(p) ==
    /\ ws.inv[p].pos = "waiting"
    /\ ws.lock \notin {"free", p}
    /\ ws' = [ws EXCEPT !.inv[p].pos = "rejected"]
    /\ UNCHANGED appvars

SetupCompleted(i) == PhaseSet("setup") \subseteq ws.markers[i]

\* faulty variant: any phase not yet run may start
Startable_eager(pipeline, r) ==
    {PhasesOf(pipeline)[k] : k \in (Len(r.done) + 1)..Len(PhasesOf(pipeline))} \ r.active
\* the phases of an experiment that may start now: the one after the last
\* finished phase, once no phase of the experiment is in progress
Startable(pipeline, r) ==
    IF r.active = {} /\ Len(r.done) < Len(PhasesOf(pipeline))
    THEN {PhasesOf(pipeline)[Len(r.done) + 1]}
    ELSE {}

\* faulty variant: analyze is attempted whatever the state of setup
MayAttempt_always(pipeline, i) == TRUE
MayAttempt(pipeline, i) == pipeline = "analyze" => SetupCompleted(i)

Finish(pipeline, r, phase) ==
    [r EXCEPT !.done = Append(r.done, phase),
              !.active = r.active \ {phase},
              !.status = IF Len(r.done) + 1 = Len(PhasesOf(pipeline))
                         THEN "done" ELSE "ready"]

\* faulty variant: a completed phase is run again
Skipped_never(opt, markers, phase) == FALSE
\* a phase whose completion marker exists is skipped, unless the run is
\* forced or a dry run
Skipped(opt, markers, phase) == phase \in markers /\ ~opt.force /\ ~opt.dry_run

\* faulty variant: a dry run invokes the external command too
Begin_real(opt, r, phase) ==
    [r EXCEPT !.active = @ \cup {phase},
              !.ran = @ \cup {phase},
              !.external = @ \cup {phase},
              !.recorded = IF opt.dry_run THEN @ \cup {phase} ELSE @]
\* the body of a phase starts: its planning and rendering run; its external
\* command is invoked, or only recorded in a dry run
Begin(opt, r, phase) ==
    [r EXCEPT !.active = @ \cup {phase},
              !.ran = @ \cup {phase},
              !.external = IF opt.dry_run THEN @ ELSE @ \cup {phase},
              !.recorded = IF opt.dry_run THEN @ \cup {phase} ELSE @]

\* faulty variant: the failure of one experiment ends the siblings' part too
Failed_abort(run, i, phase, why) ==
    [j \in Experiments |->
        [run[j] EXCEPT !.active = {}, !.status = "failed",
                       !.failure = IF j = i THEN why ELSE run[j].failure]]
\* the failure of a phase is recorded for its experiment, whose part of the
\* pipeline ends
Failed(run, i, phase, why) ==
    [run EXCEPT ![i] = [@ EXCEPT !.active = @ \ {phase}, !.status = "failed",
                                 !.failure = why]]

\* faulty variant: one experiment that is through makes the pipeline a success
Outcome_any(run) ==
    IF \E i \in Experiments : run[i].status = "done" THEN "success" ELSE "failure"
\* what the invocation reports
Outcome(run) ==
    IF \A i \in Experiments : run[i].status = "done" THEN "success" ELSE "failure"

\* the runner turns to a phase of an experiment: the experiment is recorded
\* as failed when its setup is incomplete and the pipeline is analyze; a
\* phase whose marker exists is skipped; otherwise the phase starts
StartPhase(p, i) ==
    /\ ws.inv[p].pos = "running"
    /\ ws.inv[p].run[i].status = "ready"
    /\ \E phase \in Startable(ws.inv[p].cmd, ws.inv[p].run[i]) :
          LET r == ws.inv[p].run[i]
              cmd == ws.inv[p].cmd
              opt == ws.inv[p].opt
          IN  ws' = IF ~MayAttempt(cmd, i)
                    THEN [ws EXCEPT !.inv[p].run =
                             Failed(ws.inv[p].run, i, phase, "setup incomplete")]
                    ELSE IF Skipped(opt, ws.markers[i], phase)
                    THEN [ws EXCEPT !.inv[p].run[i] = Finish(cmd, r, phase)]
                    ELSE [ws EXCEPT !.inv[p].run[i] = Begin(opt, r, phase)]
    /\ UNCHANGED appvars

\* a phase in progress completes, leaving its marker unless it was a dry
\* run, or it fails or is interrupted: the failure is recorded for the
\* experiment and no marker is left
EndPhase(p, i, ok) ==
    /\ ws.inv[p].pos = "running"
    /\ \E phase \in ws.inv[p].run[i].active :
          LET r == ws.inv[p].run[i]
              cmd == ws.inv[p].cmd
          IN  ws' = IF ok
                    THEN [ws EXCEPT !.inv[p].run[i] = Finish(cmd, r, phase),
                                    !.markers[i] = IF ws.inv[p].opt.dry_run
                                                   THEN @ ELSE @ \cup {phase}]
                    ELSE [ws EXCEPT !.inv[p].run = Failed(ws.inv[p].run, i, phase, phase)]
    /\ UNCHANGED appvars

\* run_pipeline returns once every experiment is through or has failed, and
\* reports the outcome; setup then leaves its transaction, analyze goes on
\* to dump_results inside it, mirror has no transaction to leave
EndPipeline(p) ==
    /\ ws.inv[p].pos = "running"
    /\ \A i \in Experiments :
          /\ ws.inv[p].run[i].status \in {"done", "failed"}
          /\ ws.inv[p].run[i].active = {}
    /\ ws' = CASE ws.inv[p].cmd = "setup" ->
                      [ws EXCEPT !.lock = "free", !.inv[p].pos = "done",
                                 !.inv[p].result = Outcome(ws.inv[p].run)]
               [] ws.inv[p].cmd = "analyze" ->
                      [ws EXCEPT !.inv[p].pos = "dump",
                                 !.inv[p].result = Outcome(ws.inv[p].run)]
               [] OTHER -> [ws EXCEPT !.inv[p].pos = "done",
                                      !.inv[p].result = Outcome(ws.inv[p].run)]
    /\ UNCHANGED appvars

\* ws.dump_results(...) and the end of the with block of workspace_analyze
DumpResults(p) ==
    /\ ws.inv[p].pos = "dump"
    /\ ws' = [ws EXCEPT !.lock = "free",
                        !.inv[p].pos = IF ws.inv[p].opt.upload THEN "upload" ELSE "done"]
    /\ UNCHANGED appvars

\* ws.upload_results(), after the transaction
UploadResults(p) ==
    /\ ws.inv[p].pos = "upload"
    /\ ws' = [ws EXCEPT !.inv[p].pos = "done"]
    /\ UNCHANGED appvars

InitPipeline == InitTypes

NextPipeline ==
    \/ \E p \in Procs, cmd \in Pipelines : \E opt \in OptionsOf(cmd) : Invoke(p, cmd, opt)
    \/ \E p \in Procs : Acquire(p)
    \/ \E p \in Procs : Reject(p)
    \/ \E p \in Procs, i \in Experiments : StartPhase(p, i)
    \/ \E p \in Procs, i \in Experiments, ok \in BOOLEAN : EndPhase(p, i, ok)
    \/ \E p \in Procs : EndPipeline(p)
    \/ \E p \in Procs : DumpResults(p)
    \/ \E p \in Procs : UploadResults(p)

SpecPipeline == InitPipeline /\ [][NextPipeline]_vars

----------------------------------------------------------------------------
(* Specification SpecBuiltins: the two types register builtins; once the    *)
(* subtype is constructed, the executable list of one of its workloads is   *)
(* resolved: every registered builtin that is required and absent from the  *)
(* list is injected at the front or at the back, per its injection method.  *)

BuiltinDirectives ==
    {RegisterBuiltin("env_vars", TRUE, "prepend"),
     RegisterBuiltin("prologue", TRUE, "prepend"),
     RegisterBuiltin("epilogue", TRUE, "append"),
     RegisterBuiltin("epilogue", FALSE, "prepend"),
     RegisterBuiltin("test_builtin", FALSE, "append")}

\* the executable lists a workload declares
ExplicitLists ==
    {<<>>,
     <<"execute">>,
     <<"builtin::env_vars", "execute">>,
     <<"execute", "builtin::epilogue">>,
     <<"execute", "builtin::test_builtin">>}

Listed(executables, name) == \E i \in 1..Len(executables) : executables[i] = name

\* faulty variant: every injection goes to the back
InjectBuiltin_back(executables, name, injection_method) ==
    Append(executables, name)
InjectBuiltin(executables, name, injection_method) ==
    IF injection_method = "prepend"
    THEN <<name>> \o executables
    ELSE Append(executables, name)

\* the builtins are visited in the order of the builtins container
RECURSIVE InjectRequiredBuiltins(_, _)
InjectRequiredBuiltins(executables, builtins) ==
    IF builtins = <<>> THEN executables
    ELSE LET b == Head(builtins)
             required == DictGet(b.val.d, "required") = PyBool("True")
             next == IF required /\ ~Listed(executables, b.k)
                     THEN InjectBuiltin(executables, b.k,
                                        DictGet(b.val.d, "injection_method").v)
                     ELSE executables
         IN InjectRequiredBuiltins(next, Tail(builtins))

\* a workload without an executable list is left alone
ResolveExecutables ==
    /\ pc = "built"
    /\ \E has_list \in BOOLEAN, explicit \in ExplicitLists :
          /\ ~has_list => explicit = <<>>
          /\ workload' =
                [has_list |-> has_list, explicit |-> explicit,
                 final |-> IF has_list
                           THEN InjectRequiredBuiltins(explicit,
                                                       GetAttr(World, "builtins").d)
                           ELSE <<>>]
    /\ pc' = "resolved"
    /\ UNCHANGED <<obj, parent, shared, alias, uses_spack, last, err, pre, hist, queued,
                   built, ws, xs>>

DeclareBaseBuiltin == \E d \in BuiltinDirectives : Declare("base", d)
DeclareSubBuiltin == \E d \in BuiltinDirectives : Declare("sub", d)

NextBuiltins ==
    \/ DeclareBaseBuiltin
    \/ DeclareSubBuiltin
    \/ Instantiate
    \/ ResolveExecutables

SpecBuiltins == InitTypes /\ [][NextBuiltins]_vars

----------------------------------------------------------------------------
(* Properties of the mutators, stated on the last directive executed        *)
(* (specification Spec): pre is the world before it, World the world after. *)

Before(attr_name) == GetAttr(pre, attr_name)
After(attr_name) == GetAttr(World, attr_name)

\* every container of the object other than attr_name is as it was
OthersUnchanged(attr_name) ==
    /\ \A b \in AttrNames \ {attr_name} : After(b) = Before(b) /\ obj[b] = pre.obj[b]
    /\ shared = pre.shared
    /\ uses_spack = pre.uses_spack

NothingChanged == World = pre

Matching(value, pat) == {k \in SeqSet(Iter(value)) : fnmatch(k, pat)}
IsMapping(value) == value.ty = "dict"
Entry(value, key) == DictGet(value.d, key)
\* a mapping all of whose values are mappings
IsMappingOfMappings(value) ==
    IsMapping(value) /\ \A k \in KeySet(value.d) : IsMapping(Entry(value, k))

NotFound(e) == e.kind = "DirectiveError" /\ e.what = "not found"

\* entry E2 is entry E with exactly the fields named in kwargs replaced
FieldsUpdated(E, E2, kwargs) ==
    /\ IsMapping(E2)
    /\ \A i \in 1..Len(kwargs) :
           DictHas(E2.d, kwargs[i].k) /\ Entry(E2, kwargs[i].k) = kwargs[i].val
    /\ \A f \in KeySet(E.d) \cup KeySet(E2.d) :
           ~DictHas(kwargs, f) =>
               DictHas(E.d, f) /\ DictHas(E2.d, f) /\ Entry(E2, f) = Entry(E, f)

\* mapping C2 is mapping C with exactly the entries matching name updated
UpdatedIn(C, C2, name, kwargs) ==
    /\ IsMapping(C2)
    /\ DictKeys(C2.d) = DictKeys(C.d)
    /\ Matching(C, name) # {}
    /\ \A k \in KeySet(C.d) :
           IF fnmatch(k, name) THEN FieldsUpdated(Entry(C, k), Entry(C2, k), kwargs)
           ELSE Entry(C2, k) = Entry(C, k)

\* C3: a successful update_attr_val changes exactly the entries whose key
\* matches name (inside the sub-containers whose key matches keys, when keys
\* is given): at least one entry matched, in a matched entry the fields
\* named in the replacements have the replacement values and no other field
\* changed, and every non-matching entry, every non-selected sub-container
\* and every other container of the object is as it was.
C3_UpdateFrame ==
    (last.op = "update_attr_val" /\ err = NoError) =>
        LET C == Before(last.attr_name)
            C2 == After(last.attr_name)
        IN /\ OthersUnchanged(last.attr_name)
           /\ parent = pre.parent
           /\ IF Truthy(last.keys)
              THEN /\ IsMapping(C2)
                   /\ DictKeys(C2.d) = DictKeys(C.d)
                   /\ Matching(C, last.keys) # {}
                   /\ \A k \in KeySet(C.d) :
                          IF fnmatch(k, last.keys)
                          THEN UpdatedIn(Entry(C, k), Entry(C2, k), last.name, last.kwargs)
                          ELSE Entry(C2, k) = Entry(C, k)
              ELSE UpdatedIn(C, C2, last.name, last.kwargs)

\* the IntelHpl case: bcast is updated in the workloads matching calc* while
\* pfact of the same workload and bcast of the other workload stay
C3_Witness ==
    /\ last.op = "update_attr_val" /\ err = NoError
    /\ last.attr_name = "workload_variables" /\ last.keys = "calc*" /\ last.name = "bcast"
    /\ DictHas(Entry(Before("workload_variables"), "calculator").d, "pfact")
    /\ DictHas(Entry(Before("workload_variables"), "standard").d, "bcast")
    /\ Entry(Entry(After("workload_variables"), "calculator"), "bcast")
           # Entry(Entry(Before("workload_variables"), "calculator"), "bcast")

\* C4: update_attr_val whose name pattern matches no entry fails with a
\* directive error: without keys when no key of the container matches name
\* (nothing is changed); with keys when no sub-container key matches keys
\* (nothing is changed) or when a selected sub-container has no key matching
\* name.  (Stated for an update that reaches the matching: the attribute
\* exists, is not excluded, replacements are given, and the container is a
\* mapping -- with keys, a mapping whose selected sub-containers are
\* mappings of mappings.)
C4_UpdateNoMatchFails ==
    (/\ last.op = "update_attr_val"
     /\ last.attr_name \notin {"tags", "maintainers"}
     /\ HasObjAttr(pre, last.attr_name)
     /\ Len(last.kwargs) > 0
     /\ IsMapping(Before(last.attr_name))) =>
        LET C == Before(last.attr_name)
            selected == Matching(C, last.keys)
        IN IF Truthy(last.keys)
           THEN /\ selected = {} => NotFound(err) /\ NothingChanged
                /\ (/\ \A k \in selected : IsMappingOfMappings(Entry(C, k))
                    /\ \E k \in selected : Matching(Entry(C, k), last.name) = {})
                       => err.kind = "DirectiveError"
           ELSE Matching(C, last.name) = {} => NotFound(err) /\ NothingChanged

\* bcast exists in the first selected workload but not in the second one
C4_Witness ==
    /\ last.op = "update_attr_val" /\ last.keys = "*" /\ last.name = "bcast"
    /\ last.attr_name = "workload_variables"
    /\ DictHas(Before("workload_variables").d, "calculator")
    /\ DictHas(Entry(Before("workload_variables"), "calculator").d, "bcast")
    /\ ~DictHas(Entry(Before("workload_variables"), "standard").d, "bcast")
    /\ NotFound(err)
    /\ err.path = <<"workload_variables", "standard">>

\* container C2 is container C without the keys matching name
RemovedFrom(C, C2, name) ==
    /\ Matching(C, name) # {}
    /\ IF C.ty = "list"
       THEN C2 = PyList(SelectSeq(C.l, LAMBDA k : ~fnmatch(k, name)))
       ELSE C2 = PyDict(SelectSeq(C.d, LAMBDA p : ~fnmatch(p.k, name)))

\* C5: a successful remove_attr_val without keys removes every key of the
\* container that matches the pattern and nothing else: no remaining key
\* matches, every non-matching key is still there with its value, and every
\* other container of the object is as it was.
C5_RemoveExact ==
    (last.op = "remove_attr_val" /\ ~Truthy(last.keys) /\ err = NoError) =>
        /\ OthersUnchanged(last.attr_name)
        /\ RemovedFrom(Before(last.attr_name), After(last.attr_name), last.name)
        /\ Matching(After(last.attr_name), last.name) = {}

\* remove_attr_val('software_specs', 'hpl') with another spec present
C5_Witness ==
    /\ last = RemoveAttrVal("software_specs", "hpl", NoKey)
    /\ err = NoError
    /\ DictHas(Before("software_specs").d, "hpl")
    /\ KeySet(After("software_specs").d) = KeySet(Before("software_specs").d) \ {"hpl"}
    /\ DictHas(After("software_specs").d, "imkl")

\* a pattern with no glob character
Literal(pat) == \A i \in 1..Len(Spell(pat)) : Spell(pat)[i] \notin {"*", "?", "["}
\* a container remove_attr_val can remove from
IsRemovable(value) == value.ty \in {"dict", "list"}

\* C6: remove_attr_val fails with a directive error whenever its pattern
\* matches no key -- of the container (nothing is changed), or, with keys,
\* of a selected sub-container -- and therefore, for a literal key, the same
\* remove_attr_val executed again right after a successful one fails.
C6_RemoveNoMatchFails ==
    (last.op = "remove_attr_val" /\ HasObjAttr(pre, last.attr_name)) =>
        LET C == Before(last.attr_name)
            selected == Matching(C, last.keys)
        IN /\ (~Truthy(last.keys) /\ IsRemovable(C) /\ Matching(C, last.name) = {})
                  => err.kind = "DirectiveError" /\ NothingChanged
           /\ (/\ Truthy(last.keys) /\ IsMapping(C)
               /\ \A k \in selected : IsRemovable(Entry(C, k))
               /\ \E k \in selected : Matching(Entry(C, k), last.name) = {})
                  => err.kind = "DirectiveError"
           /\ (err = NoError /\ Literal(last.name))
                  => Execute(World, last).err.kind = "DirectiveError"

\* remove_attr_val('software_specs', 'hpl') twice in a row: the second fails
C6_Witness ==
    /\ Len(hist) = 2
    /\ hist[1] = RemoveAttrVal("software_specs", "hpl", NoKey)
    /\ hist[2] = hist[1]
    /\ IsMapping(Before("software_specs"))
    /\ Matching(Before("software_specs"), "hpl") = {}
    /\ err.kind = "DirectiveError"

\* C7 as claimed: copy_attr_val fails with a directive error if the source
\* key is absent, if from_key is not a key of the container, or if to_keys
\* matches no existing key -- whether or not from_key is supplied.
C7_CopyNoMatchFails_Claimed ==
    (/\ last.op = "copy_attr_val"
     /\ HasObjAttr(pre, last.attr_name)
     /\ IsMapping(Before(last.attr_name))) =>
        LET C == Before(last.attr_name)
        IN /\ (~Truthy(last.from_key) /\ ~DictHas(C.d, last.name))
                  => NotFound(err) /\ NothingChanged
           /\ (Truthy(last.from_key) /\ ~DictHas(C.d, last.from_key))
                  => NotFound(err) /\ NothingChanged
           /\ (/\ Truthy(last.from_key) /\ DictHas(C.d, last.from_key)
               /\ IsMapping(Entry(C, last.from_key))
               /\ ~DictHas(Entry(C, last.from_key).d, last.name))
                  => NotFound(err) /\ NothingChanged
           /\ Matching(C, last.to_keys) = {}
                  => err.kind = "DirectiveError" /\ NothingChanged

\* C7 (amended): copy_attr_val fails with a directive error if the source
\* key is absent (from the container, or from the from_key sub-container),
\* if from_key is not a key of the container, or -- when from_key is
\* supplied -- if to_keys matches no existing key; nothing is changed then.
\* When from_key is omitted to_keys is not consulted: the copy succeeds
\* whenever the source key exists.
C7_CopyNoMatchFails ==
    (/\ last.op = "copy_attr_val"
     /\ HasObjAttr(pre, last.attr_name)
     /\ IsMapping(Before(last.attr_name))) =>
        LET C == Before(last.attr_name)
        IN /\ (~Truthy(last.from_key) /\ ~DictHas(C.d, last.name))
                  => NotFound(err) /\ NothingChanged
           /\ (~Truthy(last.from_key) /\ DictHas(C.d, last.name))
                  => err = NoError
           /\ (Truthy(last.from_key) /\ ~DictHas(C.d, last.from_key))
                  => NotFound(err) /\ NothingChanged
           /\ (/\ Truthy(last.from_key) /\ DictHas(C.d, last.from_key)
               /\ IsMapping(Entry(C, last.from_key))
               /\ ~DictHas(Entry(C, last.from_key).d, last.name))
                  => NotFound(err) /\ NothingChanged
           /\ (/\ Truthy(last.from_key) /\ DictHas(C.d, last.from_key)
               /\ IsMapping(Entry(C, last.from_key))
               /\ DictHas(Entry(C, last.from_key).d, last.name)
               /\ Matching(C, last.to_keys) = {})
                  => NotFound(err) /\ err.key = last.to_keys /\ NothingChanged

\* the source exists in the from_key workload and to_keys matches nothing
C7_Witness ==
    /\ last = CopyAttrVal("workload_variables", "bcast", "bcast2", "calculator", "zz")
    /\ DictHas(Before("workload_variables").d, "calculator")
    /\ DictHas(Entry(Before("workload_variables"), "calculator").d, "bcast")
    /\ NotFound(err)
    /\ err.key = "zz"

\* the fields of a matched entry for which a replacement of another runtime
\* type is supplied
MistypedFields(E, kwargs) ==
    {f \in KeySet(E.d) : DictHas(kwargs, f) /\ DictGet(kwargs, f).ty # Entry(E, f).ty}

\* C8: update_attr_val accepts a replacement only if its runtime type is the
\* type of the field it replaces: if in a matched entry a replacement names
\* an existing field whose value has another runtime type (None included),
\* the directive fails with a directive error and that field keeps its value.
C8_UpdateTypeChecked ==
    (/\ last.op = "update_attr_val"
     /\ last.attr_name \notin {"tags", "maintainers"}
     /\ HasObjAttr(pre, last.attr_name)
     /\ ~Truthy(last.keys)
     /\ IsMappingOfMappings(Before(last.attr_name))) =>
        LET C == Before(last.attr_name)
            C2 == After(last.attr_name)
        IN \A k \in Matching(C, last.name) :
               MistypedFields(Entry(C, k), last.kwargs) # {} =>
                   /\ err.kind = "DirectiveError"
                   /\ \A f \in MistypedFields(Entry(C, k), last.kwargs) :
                          Entry(Entry(C2, k), f) = Entry(Entry(C, k), f)

\* C9: update_attr_val on 'tags' or 'maintainers' fails with the directive
\* error of the exclusion, whatever the other arguments are (attribute
\* present or not, replacements given or not, pattern matching or not), and
\* changes nothing.
C9_UpdateExcluded ==
    (last.op = "update_attr_val" /\ last.attr_name \in {"tags", "maintainers"}) =>
        /\ err.kind = "DirectiveError"
        /\ err.what = "cannot be updated using generic update_attribute"
        /\ err.path = <<last.attr_name>>
        /\ NothingChanged

\* the object has no maintainers attribute and no replacement is given:
\* the exclusion is what is reported
C9_Witness ==
    /\ last.op = "update_attr_val" /\ last.attr_name = "maintainers"
    /\ ~HasObjAttr(pre, "maintainers")
    /\ last.kwargs = <<>>
    /\ err.what = "cannot be updated using generic update_attribute"

\* C10: remove_attr_val with keys works inside the sub-containers: when it
\* succeeds, the container has the same sub-containers, every sub-container
\* whose key matches keys has lost exactly its entries matching name, and
\* every other sub-container is as it was (entries matching name included);
\* it fails with a directive error, changing nothing, if no sub-container
\* key matches keys.
C10_RemoveWithin ==
    (/\ last.op = "remove_attr_val" /\ Truthy(last.keys)
     /\ HasObjAttr(pre, last.attr_name)) =>
        LET C == Before(last.attr_name)
            C2 == After(last.attr_name)
        IN /\ err = NoError =>
                  /\ OthersUnchanged(last.attr_name)
                  /\ IsMapping(C) /\ IsMapping(C2)
                  /\ DictKeys(C2.d) = DictKeys(C.d)
                  /\ Matching(C, last.keys) # {}
                  /\ \A k \in KeySet(C.d) :
                         IF fnmatch(k, last.keys)
                         THEN RemovedFrom(Entry(C, k), Entry(C2, k), last.name)
                         ELSE Entry(C2, k) = Entry(C, k)
           /\ (IsMapping(C) /\ Matching(C, last.keys) = {}) =>
                  /\ NotFound(err) /\ err.key = last.keys
                  /\ NothingChanged

\* bcast is removed from the workloads matching calc*; the other workload
\* keeps its bcast
C10_Witness ==
    /\ last = RemoveAttrVal("workload_variables", "bcast", "calc*")
    /\ err = NoError
    /\ ~DictHas(Entry(After("workload_variables"), "calculator").d, "bcast")
    /\ DictHas(Entry(After("workload_variables"), "calculator").d, "pfact")
    /\ DictHas(Entry(After("workload_variables"), "standard").d, "bcast")

----------------------------------------------------------------------------
(* Properties of instantiation (specification SpecTypes) *)

\* the world a fresh subtype object is in once the ancestor's directives
\* have been replayed on it
AfterAncestors == Replay(SubtypeWorld(TypeBase), queued["base"])
\* the containers the directives register on every object
RegisteredAttrs == {"software_specs", "required_packages", "workload_variables"}

\* C1: the containers of a freshly constructed subtype object are the result
\* of replaying the ancestor's directives in declaration order and then the
\* subtype's own in declaration order: after the ancestor's directives the
\* registered containers are those of a parent-type object, the subtype's
\* directives run on that populated state (a subtype remove of a key the
\* ancestor wrote finds it), and a subtype software_spec writing a key the
\* ancestor wrote wins.
C1_ReplayOrder ==
    pc \in {"built", "failed"} =>
        LET own == queued["sub"]
            R == IF AfterAncestors.err # NoError THEN AfterAncestors
                 ELSE Replay(AfterAncestors.w, own)
        IN /\ \A a \in RegisteredAttrs :
                  GetAttr(AfterAncestors.w, a) = ParentObject(TypeBase)[a]
           /\ err = R.err
           /\ World = R.w
           /\ (pc = "built") = (R.err = NoError)
           /\ (/\ pc = "built" /\ own # <<>>
               /\ own[Len(own)].op = "software_spec")
                  => Entry(obj["software_specs"], own[Len(own)].name)
                         = SpecEntry(own[Len(own)])
           /\ (/\ own = <<RemoveAttrVal("software_specs", "hpl", NoKey)>>
               /\ AfterAncestors.err = NoError
               /\ DictHas(ParentObject(TypeBase)["software_specs"].d, "hpl"))
                  => pc = "built" /\ ~DictHas(obj["software_specs"].d, "hpl")

\* the ancestor declares hpl, the subtype declares it again with another
\* spec, and the subtype object carries the subtype's
C1_Witness ==
    /\ pc = "built"
    /\ queued["base"] # <<>>
    /\ queued["base"][1] = SoftwareSpec("hpl", PyStr("s1"), NoneV, NoneV)
    /\ queued["sub"] # <<>>
    /\ queued["sub"][Len(queued["sub"])]
           = SoftwareSpec("hpl", PyStr("s2"), NoneV, PyStr("gcc9"))
    /\ Entry(ParentObject(TypeBase)["software_specs"], "hpl")["d"][1].val = PyStr("s1")
    /\ Entry(obj["software_specs"], "hpl")["d"][1].val = PyStr("s2")

----------------------------------------------------------------------------
(* Isolation of the parent-type object (specification Spec) *)

\* C2: a directive applied to an object leaves every attribute container of
\* another object -- here the parent-type object -- unchanged.
C2_DeepCopyIsolation ==
    last.op # "none" => \A a \in AttrNames : parent[a] = pre.parent[a]

----------------------------------------------------------------------------
(* purge, copy and glob selection (specification Spec) *)

\* the container a populating directive fills, left with that entry alone
OnlyEntry(d) ==
    CASE d.op = "software_spec" ->
            UsesSpack(World) => After("software_specs") = PyDict(<<Pair(d.name, SpecEntry(d))>>)
      [] d.op = "default_compiler" ->
            UsesSpack(World) => After("default_compilers") = PyDict(<<Pair(d.name, SpecEntry(d))>>)
      [] d.op = "required_package" ->
            After("required_packages") = PyDict(<<Pair(d.name, PyBool("True"))>>)
      [] d.op = "tags" -> After("tags") = PyList(SortSet(SeqSet(d.values)))
      [] d.op = "maintainers" -> After("maintainers") = PyList(SortSet(SeqSet(d.names)))
      [] OTHER -> TRUE
\* the attribute a populating directive fills
Fills(d) ==
    CASE d.op = "software_spec" -> "software_specs"
      [] d.op = "default_compiler" -> "default_compilers"
      [] d.op = "required_package" -> "required_packages"
      [] d.op = "tags" -> "tags"
      [] d.op = "maintainers" -> "maintainers"
      [] OTHER -> "none"

\* C11: purge_attr_vals leaves the named container empty and every other
\* container of the object unchanged; it fails with an attribute error,
\* changing nothing, if the object has no such attribute or the container
\* has no clear capability; a populating directive executed right after the
\* purge leaves exactly its own entry in the container.
C11_Purge ==
    /\ last.op = "purge_attr_vals" =>
           IF ~HasObjAttr(pre, last.attr_name) \/ ~HasAttr(Before(last.attr_name), "clear")
           THEN err.kind = "AttributeError" /\ NothingChanged
           ELSE /\ err = NoError
                /\ After(last.attr_name).ty = Before(last.attr_name).ty
                /\ Iter(After(last.attr_name)) = <<>>
                /\ OthersUnchanged(last.attr_name)
    /\ (/\ Len(hist) = 2 /\ err = NoError
        /\ hist[1].op = "purge_attr_vals"
        /\ hist[1].attr_name = Fills(last))
           => OnlyEntry(last)

\* default_compilers held gcc9; after purge and default_compiler('gcc12')
\* it holds gcc12 alone
C11_Witness ==
    /\ hist = <<PurgeAttrVals("default_compilers"),
                DefaultCompiler("gcc12", PyStr("c2"), NoneV, NoneV)>>
    /\ DictHas(parent["default_compilers"].d, "gcc9")
    /\ DictKeys(obj["default_compilers"].d) = <<"gcc12">>

\* the entries of a mapping other than key are as they were
SameBut(C, C2, key) ==
    /\ IsMapping(C2)
    /\ KeySet(C2.d) = KeySet(C.d) \cup {key}
    /\ \A k \in KeySet(C.d) \ {key} : Entry(C2, k) = Entry(C, k)

\* the entry stored one or two levels down a container (Missing if none)
EntryAt(C, path) == Descend(C, path)

\* the copy executed first, and the paths of the source and of the entries
\* it created
FirstCopy == hist[1]
CopySource ==
    IF Truthy(FirstCopy.from_key) THEN <<FirstCopy.from_key, FirstCopy.name>>
    ELSE <<FirstCopy.name>>
CopyCreated ==
    IF Truthy(FirstCopy.from_key)
    THEN {<<k, FirstCopy.newname>> : k \in Matching(Before(FirstCopy.attr_name), FirstCopy.to_keys)}
    ELSE {<<FirstCopy.newname>>}
\* the mutator executed last selects the entry at this path
Selects(d, path) ==
    CASE Len(path) = 1 -> ~Truthy(d.keys) /\ fnmatch(path[1], d.name)
      [] OTHER -> \/ (Truthy(d.keys) /\ fnmatch(path[1], d.keys) /\ fnmatch(path[2], d.name))
                  \/ (~Truthy(d.keys) /\ fnmatch(path[1], d.name))

\* C12: a successful copy_attr_val stores under newname a value equal to the
\* source entry -- in the container itself without from_key, in exactly the
\* sub-containers matching to_keys with from_key -- changes nothing else and
\* leaves the source entry as it was; the entries are independent: an
\* update_attr_val executed after the copy changes, among the source and the
\* created entries, only those its patterns select.
C12_Copy ==
    /\ (last.op = "copy_attr_val" /\ err = NoError) =>
           LET C == Before(last.attr_name)
               C2 == After(last.attr_name)
           IN /\ OthersUnchanged(last.attr_name)
              /\ IsMapping(C)
              /\ IF Truthy(last.from_key)
                 THEN /\ IsMapping(C2) /\ DictKeys(C2.d) = DictKeys(C.d)
                      /\ Matching(C, last.to_keys) # {}
                      /\ \A k \in KeySet(C.d) :
                             IF fnmatch(k, last.to_keys)
                             THEN /\ SameBut(Entry(C, k), Entry(C2, k), last.newname)
                                  /\ EntryAt(C2, <<k, last.newname>>)
                                         = EntryAt(C, <<last.from_key, last.name>>)
                             ELSE Entry(C2, k) = Entry(C, k)
                      /\ EntryAt(C2, <<last.from_key, last.name>>)
                             = EntryAt(C, <<last.from_key, last.name>>)
                 ELSE /\ SameBut(C, C2, last.newname)
                      /\ Entry(C2, last.newname) = Entry(C, last.name)
                      /\ Entry(C2, last.name) = Entry(C, last.name)
    /\ (/\ Len(hist) = 2 /\ FirstCopy.op = "copy_attr_val"
        /\ last.op = "update_attr_val" /\ last.attr_name = FirstCopy.attr_name
        /\ err = NoError) =>
           \A path \in {CopySource} \cup CopyCreated :
               ~Selects(last, path) =>
                   EntryAt(After(last.attr_name), path) = EntryAt(Before(last.attr_name), path)

\* bcast of calculator is copied as bcast2 into both workloads, then the
\* entries of calculator are updated: the copy in standard and the source's
\* twin there keep the old default
C12_Witness ==
    /\ hist = <<CopyAttrVal("workload_variables", "bcast", "bcast2", "calculator", "*"),
                UpdateAttrVal("workload_variables", "b*", "calc*", KwBcast)>>
    /\ err = NoError
    /\ Entry(EntryAt(obj["workload_variables"], <<"calculator", "bcast2">>), "default") = PyStr("6")
    /\ Entry(EntryAt(obj["workload_variables"], <<"standard", "bcast2">>), "default") = PyStr("1")

\* keys and patterns of which the shell's rules say that the pattern matches
\* the key: * matches any run of characters, ? one character, [..] one
\* character of the set
ShellMatches ==
    {<<"hpl", "h*">>, <<"hpl2", "h*">>, <<"hpl", "?pl">>, <<"hpl", "[hi]*">>,
     <<"hpl2", "[hi]*">>, <<"imkl", "[hi]*">>, <<"calculator", "calc*">>,
     <<"miniapp", "m*">>, <<"mkl", "m*">>, <<"bcast", "b*">>, <<"bcast2", "b*">>,
     <<"hpl", "*">>, <<"imkl", "*">>, <<"hpl2", "*">>, <<"miniapp", "*">>}

\* remove_attr_val and update_attr_val select by glob: when name (and keys,
\* if given) match existing keys of a well-shaped container, the directive
\* does not report "not found", and a successful remove has removed every
\* matching key
GlobSelectsRemoveUpdate ==
    /\ (/\ last.op = "remove_attr_val" /\ HasObjAttr(pre, last.attr_name)
        /\ ~Truthy(last.keys) /\ IsRemovable(Before(last.attr_name))) =>
           LET keys == SeqSet(Iter(Before(last.attr_name)))
               hit == {k \in keys : <<k, last.name>> \in ShellMatches}
           IN hit # {} => /\ err = NoError
                          /\ hit \cap SeqSet(Iter(After(last.attr_name))) = {}
    /\ (last.op = "remove_attr_val" /\ HasObjAttr(pre, last.attr_name)) =>
           LET C == Before(last.attr_name)
               C2 == After(last.attr_name)
           IN IF Truthy(last.keys)
              THEN (/\ IsMapping(C) /\ Matching(C, last.keys) # {}
                    /\ \A k \in Matching(C, last.keys) :
                           /\ IsRemovable(Entry(C, k))
                           /\ Matching(Entry(C, k), last.name) # {})
                       => /\ err = NoError
                          /\ \A k \in Matching(C, last.keys) :
                                 Matching(Entry(C2, k), last.name) = {}
              ELSE (IsRemovable(C) /\ Matching(C, last.name) # {})
                       => err = NoError /\ Matching(C2, last.name) = {}
    /\ (/\ last.op = "update_attr_val" /\ HasObjAttr(pre, last.attr_name)
        /\ last.attr_name \notin {"tags", "maintainers"} /\ last.kwargs # <<>>) =>
           LET C == Before(last.attr_name)
           IN IF Truthy(last.keys)
              THEN (/\ IsMapping(C) /\ Matching(C, last.keys) # {}
                    /\ \A k \in Matching(C, last.keys) :
                           /\ IsMappingOfMappings(Entry(C, k))
                           /\ Matching(Entry(C, k), last.name) # {})
                       => ~NotFound(err)
              ELSE (IsMappingOfMappings(C) /\ Matching(C, last.name) # {})
                       => ~NotFound(err)

\* copy_attr_val selects its targets by glob: with the source found, every
\* sub-container whose key matches to_keys receives the copy
GlobSelectsCopyTargets ==
    (/\ last.op = "copy_attr_val" /\ HasObjAttr(pre, last.attr_name)
     /\ Truthy(last.from_key)
     /\ IsMappingOfMappings(Before(last.attr_name))
     /\ DictHas(Before(last.attr_name).d, last.from_key)
     /\ DictHas(Entry(Before(last.attr_name), last.from_key).d, last.name)
     /\ Matching(Before(last.attr_name), last.to_keys) # {}) =>
        /\ err = NoError
        /\ \A k \in Matching(Before(last.attr_name), last.to_keys) :
               DictHas(Entry(After(last.attr_name), k).d, last.newname)

\* C13 as claimed: every key argument of remove, update and copy is a glob
\* pattern, the source name and from_key of copy included: a pattern that
\* matches an existing key selects it.
C13_GlobEverywhere_Claimed ==
    /\ GlobSelectsRemoveUpdate
    /\ GlobSelectsCopyTargets
    /\ (/\ last.op = "copy_attr_val" /\ HasObjAttr(pre, last.attr_name)
        /\ IsMapping(Before(last.attr_name))) =>
           LET C == Before(last.attr_name)
           IN IF Truthy(last.from_key)
              THEN /\ Matching(C, last.from_key) # {}
                          => ~(NotFound(err) /\ err.key = last.from_key)
                   /\ (/\ DictHas(C.d, last.from_key)
                       /\ IsMapping(Entry(C, last.from_key))
                       /\ Matching(Entry(C, last.from_key), last.name) # {})
                          => ~(NotFound(err) /\ err.key = last.name)
              ELSE Matching(C, last.name) # {} => ~NotFound(err)

\* C13 (amended): remove_attr_val (name, keys), update_attr_val (name, keys)
\* and the to_keys of copy_attr_val are glob patterns matched against the
\* existing keys, and a pattern matching an existing key selects it; the
\* source name and the from_key of copy_attr_val are literal keys: the copy
\* finds them exactly when the container has a key equal to the argument.
C13_GlobSelection ==
    /\ GlobSelectsRemoveUpdate
    /\ GlobSelectsCopyTargets
    /\ (/\ last.op = "copy_attr_val" /\ HasObjAttr(pre, last.attr_name)
        /\ IsMapping(Before(last.attr_name))) =>
           LET C == Before(last.attr_name)
           IN IF Truthy(last.from_key)
              THEN /\ (NotFound(err) /\ err.key = last.from_key
                          /\ err.path = <<last.attr_name>>)
                          <=> ~DictHas(C.d, last.from_key)
                   /\ (DictHas(C.d, last.from_key) /\ IsMapping(Entry(C, last.from_key)))
                          => ((NotFound(err) /\ err.key = last.name)
                                 <=> ~DictHas(Entry(C, last.from_key).d, last.name))
              ELSE NotFound(err) <=> ~DictHas(C.d, last.name)

\* a copy whose source name is a wildcard matching the key hpl finds nothing
C13_Witness ==
    /\ last.op = "copy_attr_val" /\ last.name = "h*" /\ ~Truthy(last.from_key)
    /\ "hpl" \in Matching(Before("software_specs"), "h*")
    /\ NotFound(err)

----------------------------------------------------------------------------
(* Declaration and validation (specification SpecConfig) *)

\* the object as it is before any directive runs
InitialWorld == ParentWorld([TypeBase EXCEPT !.directives = <<>>])
\* the directives replayed on the subtype object, in replay order
ReplayList == queued["base"] \o queued["sub"]
\* a directive whose argument its validation rejects
Invalid(d) ==
    \/ d.op = "register_builtin" /\ d.injection_method \notin {"prepend", "append"}
    \/ d.op = "success_criteria"
           /\ d.mode \notin {"string", "application_function", "fom_comparison"}
\* the position of the first invalid directive of a list (0 if none)
FirstInvalid(ds) ==
    IF \E i \in 1..Len(ds) : Invalid(ds[i])
    THEN CHOOSE i \in 1..Len(ds) : Invalid(ds[i]) /\ \A j \in 1..(i - 1) : ~Invalid(ds[j])
    ELSE 0

\* C14: calling a directive in a type body only queues it: as long as no
\* object is constructed no container of any object changes and nothing is
\* validated, even for an argument the directive rejects; the mutation and
\* the validation happen when the queue is replayed at construction, on a
\* fresh object that carries no trace of the declarations.
C14_DeclareOnlyQueues ==
    /\ pc = "declare" =>
           /\ World = InitialWorld
           /\ err = NoError
           /\ built = NotBuilt
           /\ SubtypeWorld(TypeBase).obj = InitialWorld.obj
    /\ pc \in {"built", "failed"} =>
           /\ World = Replay(SubtypeWorld(TypeBase), ReplayList).w
           /\ err = Replay(SubtypeWorld(TypeBase), ReplayList).err
           /\ (FirstInvalid(ReplayList) # 0) <=> (pc = "failed")

\* an archive pattern and a builtin with a bad injection method are queued;
\* nothing is stored and nothing has been rejected
C14_Witness ==
    /\ pc = "declare"
    /\ queued["base"] = <<ArchivePattern("*.log")>>
    /\ queued["sub"] = <<RegisterBuiltin("test_builtin", TRUE, "middle")>>
    /\ obj["archive_patterns"] = PyDict(<<>>)
    /\ obj["builtins"] = PyDict(<<>>)
    /\ err = NoError

\* the replay list up to, and without, its first invalid directive
BeforeInvalid == SubSeq(ReplayList, 1, FirstInvalid(ReplayList) - 1)
RejectedDirective == ReplayList[FirstInvalid(ReplayList)]

\* C15: when the first directive of the replay that is rejected is a
\* register_builtin with an injection method other than prepend and append,
\* construction fails with a directive error naming the object and the bad
\* value, the builtins container holds what the directives before it stored
\* and nothing of the rejected one, no later directive has run, and no
\* object is handed out.
C15_BadInjectionAborts ==
    (/\ pc \in {"built", "failed"}
     /\ FirstInvalid(ReplayList) # 0
     /\ RejectedDirective.op = "register_builtin") =>
        /\ pc = "failed"
        /\ built = [status |-> "failed"]
        /\ err.kind = "DirectiveError"
        /\ err.path = <<"Object", TypeBase.name>>
        /\ err.key = RejectedDirective.injection_method
        /\ World = Replay(SubtypeWorld(TypeBase), BeforeInvalid).w
        /\ \A k \in KeySet(obj["builtins"].d) :
               Entry(Entry(obj["builtins"], k), "injection_method").v
                   \in {"prepend", "append"}

\* env_vars is registered, then a builtin with injection method 'middle',
\* then an archive pattern: only env_vars is stored
C15_Witness ==
    /\ pc = "failed"
    /\ queued["base"] = <<RegisterBuiltin("env_vars", TRUE, "prepend")>>
    /\ queued["sub"] = <<RegisterBuiltin("test_builtin", TRUE, "middle"),
                         ArchivePattern("*.log")>>
    /\ DictKeys(obj["builtins"].d) = <<"builtin::env_vars">>
    /\ obj["archive_patterns"] = PyDict(<<>>)
    /\ err.key = "middle"

\* the success criteria of the replay list that are rejected
BadCriteria == {i \in 1..Len(ReplayList) :
                   ReplayList[i].op = "success_criteria" /\ Invalid(ReplayList[i])}

\* C17: a success_criteria declaration with a mode other than string,
\* application_function and fom_comparison makes the construction of the
\* object fail -- so no object exists on which an experiment could run --
\* and an entry with such a mode is never stored in the success_criteria
\* container, in any state.
C17_BadModeRejected ==
    /\ \A k \in KeySet(obj["success_criteria"].d) :
           Entry(Entry(obj["success_criteria"], k), "mode").v
               \in {"string", "application_function", "fom_comparison"}
    /\ (pc \in {"built", "failed"} /\ BadCriteria # {}) =>
           /\ pc = "failed"
           /\ built = [status |-> "failed"]
           /\ err # NoError
    /\ (/\ pc = "failed" /\ RejectedDirective.op = "success_criteria") =>
           /\ err.key = RejectedDirective.mode
           /\ World = Replay(SubtypeWorld(TypeBase), BeforeInvalid).w

\* a valid criterion is declared, then one with mode 'bogus' under the same
\* name: the stored criterion is still the valid one
C17_Witness ==
    /\ pc = "failed"
    /\ queued["base"] = <<SuccessCriteria("status", "string", PyStr("done"))>>
    /\ queued["sub"] = <<SuccessCriteria("status", "bogus", NoneV)>>
    /\ Entry(Entry(obj["success_criteria"], "status"), "mode") = PyStr("string")
    /\ err.key = "bogus"

----------------------------------------------------------------------------
(* C16: builtin injection *)

BuiltinNames == {"env_vars", "prologue", "epilogue", "test_builtin"}

Registrations(name) ==
    SelectSeq(hist, LAMBDA d : d.op = "register_builtin" /\ d.name = name)
Registered(name) == Registrations(name) # <<>>
\* the registration in force is the last one declared along the lineage
InForce(name) == Registrations(name)[Len(Registrations(name))]
FirstRegistered(name) ==
    CHOOSE i \in 1..Len(hist) :
        /\ hist[i].op = "register_builtin" /\ hist[i].name = name
        /\ \A j \in 1..(i - 1) :
              ~(hist[j].op = "register_builtin" /\ hist[j].name = name)
Occurrences(executables, name) ==
    Cardinality({i \in 1..Len(executables) : executables[i] = name})
\* the builtins the resolution has to inject
ToInject ==
    {n \in BuiltinNames :
        /\ Registered(n)
        /\ InForce(n).required
        /\ ~Listed(workload.explicit, BuiltinName(n))}
Position(executables, name) ==
    CHOOSE i \in 1..Len(executables) : executables[i] = name

\* C16: in a workload that has an executable list, a required builtin's fully
\* qualified name occurs exactly once in the final list; one that was absent
\* from the explicit list is injected at index 0 (prepend) or at the last
\* index (append) at the time of its injection, so that the prepended ones
\* stand before the explicit list, latest first, and the appended ones
\* after it, in registration order; one already listed is not injected
\* again; a builtin that is not required is never injected; the explicit
\* executables keep their order
C16_BuiltinInjection ==
    (pc = "resolved" /\ workload.has_list) =>
        LET E == workload.explicit
            F == workload.final
            Front == {n \in ToInject : InForce(n).injection_method = "prepend"}
            Back == {n \in ToInject : InForce(n).injection_method = "append"}
        IN  /\ Len(F) = Cardinality(Front) + Len(E) + Cardinality(Back)
            /\ \A i \in 1..Len(E) : F[Cardinality(Front) + i] = E[i]
            /\ \A n \in BuiltinNames :
                  LET bn == BuiltinName(n) IN
                  /\ (Registered(n) /\ InForce(n).required) => Occurrences(F, bn) = 1
                  /\ Listed(E, bn) => Occurrences(F, bn) = Occurrences(E, bn)
                  /\ (~Registered(n) \/ ~InForce(n).required) =>
                        Occurrences(F, bn) = Occurrences(E, bn)
                  /\ n \in Front =>
                        /\ Position(F, bn) <= Cardinality(Front)
                        /\ \A m \in Front :
                              FirstRegistered(m) < FirstRegistered(n)
                                  => Position(F, bn) < Position(F, BuiltinName(m))
                        /\ (\A m \in Front : FirstRegistered(m) <= FirstRegistered(n))
                              => F[1] = bn
                  /\ n \in Back =>
                        /\ Position(F, bn) > Cardinality(Front) + Len(E)
                        /\ \A m \in Back :
                              FirstRegistered(m) < FirstRegistered(n)
                                  => Position(F, BuiltinName(m)) < Position(F, bn)
                        /\ (\A m \in Back : FirstRegistered(m) <= FirstRegistered(n))
                              => F[Len(F)] = bn

\* two builtins are prepended and one is appended around an explicit list
\* that names none of them, while a builtin that is not required stays out
C16_Witness ==
    /\ pc = "resolved"
    /\ workload.has_list
    /\ workload.explicit = <<"execute">>
    /\ workload.final = <<"builtin::prologue", "builtin::env_vars", "execute",
                          "builtin::epilogue">>
    /\ Registered("test_builtin")

----------------------------------------------------------------------------
(* C18: container shape *)

FomFields == {"log_file", "regex", "group_name", "units", "contexts"}

KeysUnique(d) == \A i, j \in 1..Len(d) : d[i].k = d[j].k => i = j
HasFomShape(value) ==
    /\ value.ty = "dict"
    /\ \A f \in FomFields : DictHas(value.d, f)

\* keys are unique within each mapping container, at both levels
C18_KeysUnique ==
    \A a \in AttrNames :
        (HasObjAttr(World, a) /\ GetAttr(World, a).ty = "dict") =>
            /\ KeysUnique(GetAttr(World, a).d)
            /\ \A i \in 1..Len(GetAttr(World, a).d) :
                  GetAttr(World, a).d[i].val.ty = "dict"
                      => KeysUnique(GetAttr(World, a).d[i].val.d)

\* C18: after any sequence of figure_of_merit declarations and generic
\* mutators that ran without raising, keys are unique within each container
\* and every value of figures_of_merit has the fields log_file, regex,
\* group_name, units and contexts
C18_ContainerShape ==
    pc = "run" =>
        /\ C18_KeysUnique
        /\ \A i \in 1..Len(GetAttr(World, "figures_of_merit").d) :
              HasFomShape(GetAttr(World, "figures_of_merit").d[i].val)

----------------------------------------------------------------------------
(* C19: single writer *)

InPipeline(p) == ws.inv[p].pos = "running"
InPhase(p, i) == ws.inv[p].run[i].active # {}

\* C19: every pipeline of a setup, analyze or mirror command runs inside a
\* write transaction of the workspace that its invocation holds, so no two
\* invocations are inside their pipelines at the same time
C19_SingleWriter ==
    /\ \A p \in Procs : InPipeline(p) => ws.lock = p
    /\ \A p, q \in Procs : (InPipeline(p) /\ InPipeline(q)) => p = q

\* the same, for the commands that open a transaction
C19_SetupAnalyzeSerialized ==
    /\ \A p \in Procs :
          (InPipeline(p) /\ ws.inv[p].cmd \in {"setup", "analyze"}) => ws.lock = p
    /\ \A p, q \in Procs :
          (/\ InPipeline(p) /\ ws.inv[p].cmd \in {"setup", "analyze"}
           /\ InPipeline(q) /\ ws.inv[q].cmd \in {"setup", "analyze"}) => p = q

\* a phase of setup and a phase of mirror are in progress on one experiment
C19_Interleaved ==
    \E p, q \in Procs, i \in Experiments :
        /\ ws.inv[p].cmd = "setup" /\ InPhase(p, i)
        /\ ws.inv[q].cmd = "mirror" /\ InPhase(q, i)

----------------------------------------------------------------------------
(* C20: phase order within one experiment *)

IsPrefix(s, t) == Len(s) <= Len(t) /\ \A k \in 1..Len(s) : s[k] = t[k]
Attempted(r) == r.active # {} \/ r.done # <<>>

C20_WitnessNotAttempted ==
    \E p \in Procs :
        /\ ws.inv[p].cmd = "analyze"
        /\ ws.inv[p].run["e1"].status = "failed"
        /\ ~Attempted(ws.inv[p].run["e1"])
        /\ ~SetupCompleted("e1")
        /\ ws.inv[p].run["e2"].status = "done"

----------------------------------------------------------------------------
(* C28: context of the "not found" errors *)

Mutators == {"remove_attr_val", "update_attr_val", "copy_attr_val"}

\* the patterns and keys the failed directive was called with
GivenKeys(d) ==
    CASE d.op = "copy_attr_val" -> {d.name, d.from_key, d.to_keys}
      [] OTHER -> {d.name, d.keys}

\* the error names the attribute the directive was called on, possibly
\* followed by the sub-container it was looking into, and the key or
\* pattern that matched nothing
LocatesFailure(e, d) ==
    /\ Len(e.path) \in {1, 2}
    /\ e.path[1] = d.attr_name
    /\ Len(e.path) = 2 => DictHas(GetAttr(pre, d.attr_name).d, e.path[2])
    /\ e.key \in GivenKeys(d) \ {NoKey}

\* C28: a "not found" failure of remove_attr_val, update_attr_val or
\* copy_attr_val reports the actual attribute path and the actual key or
\* pattern that failed to match
C28_NotFoundContext ==
    (pc = "failed" /\ last.op \in Mutators /\ NotFound(err)) => LocatesFailure(err, last)

\* the same, for update_attr_val and copy_attr_val only
C28_UpdateCopyContext ==
    (pc = "failed" /\ last.op \in {"update_attr_val", "copy_attr_val"} /\ NotFound(err))
        => LocatesFailure(err, last)

----------------------------------------------------------------------------
(* C29: what a failed mutator leaves behind *)

FailedMutator == pc = "failed" /\ last.op \in Mutators

\* the failure was found before any entry was processed
FailedUpFront ==
    \/ err.kind # "DirectiveError"
    \/ err.what \in {"cannot be updated using generic update_attribute",
                     "No kwargs provided"}
    \/ NotFound(err) /\ (last.op = "copy_attr_val" \/ ~Truthy(last.keys))

\* the positions of the entries the directive selects in its container
SelectedAt(attr_name) ==
    {i \in 1..Len(Before(attr_name).d) :
        fnmatch(Before(attr_name).d[i].k,
                IF Truthy(last.keys) THEN last.keys ELSE last.name)}
ChangedAt(attr_name) ==
    {i \in 1..Len(Before(attr_name).d) :
        After(attr_name).d[i] # Before(attr_name).d[i]}

\* C29 as claimed: whenever remove_attr_val, update_attr_val or copy_attr_val
\* fails, every container of the object is exactly as it was before the
\* directive started
C29_AllOrNothing_Claimed == FailedMutator => NothingChanged

\* C29: a failed mutator leaves every container other than the one it was
\* called on as it was; a failure found before any entry is processed leaves
\* that container as it was too; otherwise the container keeps its keys,
\* only entries the directive selects are changed, and they all stand before
\* a selected entry that is as it was, the one the directive failed on
C29_FailureFrame ==
    FailedMutator =>
        /\ HasObjAttr(pre, last.attr_name) => OthersUnchanged(last.attr_name)
        /\ ~HasObjAttr(pre, last.attr_name) => NothingChanged
        /\ FailedUpFront => NothingChanged
        /\ ~NothingChanged =>
              /\ Before(last.attr_name).ty = "dict" /\ After(last.attr_name).ty = "dict"
              /\ DictKeys(After(last.attr_name).d) = DictKeys(Before(last.attr_name).d)
              /\ ChangedAt(last.attr_name) \subseteq SelectedAt(last.attr_name)
              /\ \E f \in SelectedAt(last.attr_name) \ ChangedAt(last.attr_name) :
                    \A i \in ChangedAt(last.attr_name) : i < f

\* a remove within every sub-container fails in the second one after it
\* removed the key from the first
C29_Witness ==
    /\ FailedMutator
    /\ last = RemoveAttrVal("workload_variables", "bcast", "*")
    /\ NotFound(err)
    /\ ~NothingChanged
    /\ After("workload_variables").d[1] # Before("workload_variables").d[1]
    /\ After("workload_variables").d[2] = Before("workload_variables").d[2]

\* an update of every entry fails on a later entry after it replaced a
\* field of an earlier one
C29_WitnessUpdate ==
    /\ FailedMutator
    /\ last.op = "update_attr_val"
    /\ err.what = "type mismatch"
    /\ ~NothingChanged

----------------------------------------------------------------------------
(* C30: software_spec and default_compiler *)

SpackContainer(d) ==
    IF d.op = "software_spec" THEN "software_specs" ELSE "default_compilers"

\* the entry the directive names, spelled out
NamedEntry(d) ==
    PyDict(<<Pair("spack_spec", d.spack_spec),
             Pair("compiler_spec", d.compiler_spec),
             Pair("compiler", d.compiler)>>)

\* C30: software_spec and default_compiler raise no error; on an object
\* whose uses_spack is missing or false they change nothing; on an object
\* whose uses_spack is true they set the named entry of their container to
\* {spack_spec, compiler_spec, compiler} and leave every other entry and
\* every other container as it was
C30_SpackOnly ==
    last.op \in {"software_spec", "default_compiler"} =>
        /\ err = NoError
        /\ pc = "run"
        /\ uses_spack \in {Missing, PyBool("False")} => NothingChanged
        /\ uses_spack = PyBool("True") =>
              /\ OthersUnchanged(SpackContainer(last))
              /\ DictHas(After(SpackContainer(last)).d, last.name)
              /\ DictGet(After(SpackContainer(last)).d, last.name) = NamedEntry(last)
              /\ KeySet(After(SpackContainer(last)).d)
                     = KeySet(Before(SpackContainer(last)).d) \cup {last.name}
              /\ \A k \in KeySet(Before(SpackContainer(last)).d) \ {last.name} :
                    DictGet(After(SpackContainer(last)).d, k)
                        = DictGet(Before(SpackContainer(last)).d, k)

\* default_compiler ran on an object without a uses_spack attribute
C30_Witness ==
    /\ last.op = "default_compiler"
    /\ uses_spack = Missing
    /\ pc = "run"
    /\ After("default_compilers") = PyDict(<<>>)

\* software_spec added an entry next to an existing one on an object that
\* uses spack
C30_WitnessSpack ==
    /\ last.op = "software_spec"
    /\ uses_spack = PyBool("True")
    /\ last.name = "imkl"
    /\ ~DictHas(Before("software_specs").d, "imkl")
    /\ DictHas(After("software_specs").d, "hpl")

----------------------------------------------------------------------------
(* C21: phase idempotence *)

\* the phases of experiment i whose body starts in this step of invocation p
Starting(p, i) == ws'.inv[p].run[i].ran \ ws.inv[p].run[i].ran
\* the phases of experiment i whose external command is invoked in this step
Invoking(p, i) == ws'.inv[p].run[i].external \ ws.inv[p].run[i].external
\* a phase of experiment i fails or is interrupted in this step
Interrupted(p, i) ==
    /\ ws.inv[p].run[i].active # {}
    /\ ws'.inv[p].run[i].status = "failed"

C21_WitnessForced ==
    \E p \in Procs :
        /\ ws.inv[p].cmd = "setup" /\ ws.inv[p].opt.force
        /\ "make_directories" \in ws.inv[p].run["e1"].external
        /\ ws.inv[p].run["e1"].active = {"make_directories"}
        /\ "make_directories" \in ws.markers["e1"]

----------------------------------------------------------------------------
(* C22: dry run *)

Ended(p) == ws.inv[p].pos \in {"dump", "upload", "done"}

----------------------------------------------------------------------------
(* C23: partial-failure isolation *)

\* C23: an experiment is recorded as failed exactly when a phase of its own
\* failed (or its setup was incomplete at analyze); when the pipeline has
\* ended every experiment has either gone through all phases or failed by
\* itself, and the invocation reports success exactly when every experiment
\* went through all phases
C23_FailureIsolation ==
    \A p \in Procs :
        /\ \A i \in Experiments :
              /\ ws.inv[p].run[i].status = "failed" <=> ws.inv[p].run[i].failure # "none"
              /\ ws.inv[p].run[i].failure # "none" =>
                    /\ ws.inv[p].run[i].failure
                           \in PhaseSet(ws.inv[p].cmd) \cup {"setup incomplete"}
                    /\ ws.inv[p].run[i].failure \notin
                           {ws.inv[p].run[i].done[k] : k \in 1..Len(ws.inv[p].run[i].done)}
        /\ ~Ended(p) => ws.inv[p].result = "none"
        /\ Ended(p) =>
              /\ \A i \in Experiments :
                    \/ ws.inv[p].run[i].done = PhasesOf(ws.inv[p].cmd)
                    \/ ws.inv[p].run[i].failure # "none"
              /\ ws.inv[p].result \in {"success", "failure"}
              /\ ws.inv[p].result = "success" <=>
                    \A i \in Experiments :
                        /\ ws.inv[p].run[i].done = PhasesOf(ws.inv[p].cmd)
                        /\ ws.inv[p].run[i].failure = "none"

\* an analyze has ended: a phase failed for the first experiment, the
\* second went through all phases after that failure, the invocation
\* reports failure
C23_Witness ==
    \E p \in Procs :
        /\ ws.inv[p].cmd = "analyze"
        /\ Ended(p)
        /\ ws.inv[p].run["e1"].failure = "extract_foms"
        /\ ws.inv[p].run["e2"].done = PhasesOf("analyze")
        /\ ws.inv[p].run["e2"].ran = PhaseSet("analyze")
        /\ ws.inv[p].result = "failure"

\* ---------------------------------------------------------------------
\* The variable expander (ramble.expander), as workspace_info drives it:
\* app_inst.expander.expand_var('{' + var + '}').  Strings are sequences
\* of characters, so that a placeholder is something the expander has to
\* find and an identifier something it has to read out of the braces.
\* ---------------------------------------------------------------------

\* the layers of a variable namespace, highest precedence first
Precedence == <<"experiment", "workspace">>

Expanded(text, ns) == [val |-> text, err |-> NoError, ns |-> ns]

CycleError(chain, ns) ==
    [val |-> <<>>, err |-> [kind |-> "cycle", chain |-> chain], ns |-> ns]

MissingError(name, template, ns) ==
    [val |-> <<>>,
     err |-> [kind |-> "missing", name |-> name, template |-> template],
     ns  |-> ns]

\* the position of the first ch in s, 0 when there is none
IndexOf(s, ch) ==
    IF \E k \in 1..Len(s) : s[k] = ch
    THEN CHOOSE k \in 1..Len(s) : s[k] = ch /\ \A j \in 1..(k - 1) : s[j] # ch
    ELSE 0

IsIdentifier(t) == t # <<>> /\ \A k \in 1..Len(t) : t[k] \notin {"{", "}"}

\* s opens with a placeholder {identifier}
OpensPlaceholder(s) ==
    /\ s # <<>>
    /\ Head(s) = "{"
    /\ IndexOf(s, "}") > 0
    /\ IsIdentifier(SubSeq(s, 2, IndexOf(s, "}") - 1))

PlaceholderName(s) == SubSeq(s, 2, IndexOf(s, "}") - 1)

AfterPlaceholder(s) == SubSeq(s, IndexOf(s, "}") + 1, Len(s))

Ref(name) == <<"{">> \o name \o <<"}">>

Defines(ns, name) ==
    \E k \in 1..Len(Precedence) : name \in DOMAIN ns[Precedence[k]]

\* the effective value of a name: the one of the highest layer defining it
Effective(ns, name) ==
    LET k == CHOOSE i \in 1..Len(Precedence) :
                 /\ name \in DOMAIN ns[Precedence[i]]
                 /\ \A j \in 1..(i - 1) : name \notin DOMAIN ns[Precedence[j]]
    IN  ns[Precedence[k]][name]

RECURSIVE ExpandIn(_, _, _)

\* a placeholder replaced by its value as it stands in the namespace
Substitute_raw(name, template, ns, chain) ==
    IF ~Defines(ns, name) THEN MissingError(name, template, ns)
    ELSE Expanded(Effective(ns, name), ns)

\* a placeholder replaced by its value, which the namespace then remembers
Substitute_cached(name, template, ns, chain) ==
    IF \E k \in 1..Len(chain) : chain[k] = name
    THEN CycleError(Append(chain, name), ns)
    ELSE IF ~Defines(ns, name) THEN MissingError(name, template, ns)
    ELSE LET r == ExpandIn(Effective(ns, name), ns, Append(chain, name))
             top == Precedence[1]
         IN  IF r.err.kind # "none" THEN r
             ELSE Expanded(r.val,
                     [r.ns EXCEPT ![top] =
                         [n \in DOMAIN r.ns[top] \cup {name} |->
                             IF n = name THEN r.val ELSE r.ns[top][n]]])

\* a placeholder under resolution left in place instead of reported
Substitute_silent(name, template, ns, chain) ==
    IF \E k \in 1..Len(chain) : chain[k] = name
    THEN Expanded(Ref(name), ns)
    ELSE IF ~Defines(ns, name) THEN MissingError(name, template, ns)
    ELSE ExpandIn(Effective(ns, name), ns, Append(chain, name))

\* what replaces the placeholder {name} met in template while the names of
\* chain are being resolved
Substitute(name, template, ns, chain) ==
    IF \E k \in 1..Len(chain) : chain[k] = name
    THEN CycleError(Append(chain, name), ns)
    ELSE IF ~Defines(ns, name) THEN MissingError(name, template, ns)
    ELSE ExpandIn(Effective(ns, name), ns, Append(chain, name))

\* template with its placeholders replaced, left to right
ExpandIn(template, ns, chain) ==
    IF template = <<>> THEN Expanded(<<>>, ns)
    ELSE IF OpensPlaceholder(template)
    THEN LET v == Substitute(PlaceholderName(template), template, ns, chain)
         IN  IF v.err.kind # "none" THEN v
             ELSE LET r == ExpandIn(AfterPlaceholder(template), v.ns, chain)
                  IN  IF r.err.kind # "none" THEN r
                      ELSE Expanded(v.val \o r.val, r.ns)
    ELSE LET r == ExpandIn(Tail(template), ns, chain)
         IN  IF r.err.kind # "none" THEN r
             ELSE Expanded(<<Head(template)>> \o r.val, r.ns)

expand(template, ns) == ExpandIn(template, ns, <<>>)

\* what workspace_info prints after ==> for a variable
expand_var(var, ns) == expand(Ref(var), ns)

\* the names a text refers to
RECURSIVE References(_)
References(s) ==
    IF s = <<>> THEN {}
    ELSE IF OpensPlaceholder(s)
    THEN {PlaceholderName(s)} \cup References(AfterPlaceholder(s))
    ELSE References(Tail(s))

\* the variables and the values the experiments of the model are given
VarA == <<"a">>
VarB == <<"b">>
VarC == <<"c">>
VarD == <<"d">>

ExperimentNames == {VarA, VarB}
WorkspaceNames == {VarB, VarC}
PrintedVars == {VarA, VarB, VarC, VarD}

VarValues ==
    {<<"1">>, Ref(VarA), Ref(VarB), <<"x">> \o Ref(VarC),
     Ref(VarB) \o <<"-">> \o Ref(VarC)}

LayerValues(names) == UNION {[D -> VarValues] : D \in SUBSET names}

Namespaces ==
    {[experiment |-> e, workspace |-> w] :
        e \in LayerValues(ExperimentNames), w \in LayerValues(WorkspaceNames)}

\* the templates expanded: every printed variable in braces, a path made of
\* two variables, and a text without placeholders
Templates ==
    {Ref(v) : v \in PrintedVars}
        \cup {Ref(VarA) \o <<"/">> \o Ref(VarC), <<"x">>}

\* the experiment workspace_info looks at, and its namespace
InitExperiment ==
    /\ queued = NoQueues
    /\ built = NotBuilt
    /\ workload = NoWorkload
    /\ ws = NoWorkspace
    /\ pc = "declare"
    /\ InitWorld(ParentWorld([TypeBase EXCEPT !.directives = <<>>]))
    /\ last = NoDirective
    /\ err = NoError
    /\ pre = World
    /\ hist = <<>>

InitExpand ==
    /\ InitExperiment
    /\ \E ns \in Namespaces : xs = [at |-> "declared", ns |-> ns]

\* workspace_info expanding one variable of an experiment
ExpandTemplate(template) ==
    /\ xs.at = "declared"
    /\ LET r == expand(template, xs.ns)
       IN  xs' = [at |-> "expanded", declared |-> xs.ns, ns |-> r.ns,
                  template |-> template, out |-> r]
    /\ UNCHANGED <<obj, parent, shared, alias, uses_spack, pc, last, err, pre,
                   hist, queued, built, workload, ws>>

\* the printed value handed to the expander once more
ExpandAgain ==
    /\ xs.at = "expanded"
    /\ xs.out.err.kind = "none"
    /\ LET r == expand(xs.out.val, xs.ns)
       IN  xs' = [xs EXCEPT !.at = "reexpanded", !.ns = r.ns] @@ [again |-> r]
    /\ UNCHANGED <<obj, parent, shared, alias, uses_spack, pc, last, err, pre,
                   hist, queued, built, workload, ws>>

NextExpand ==
    \/ \E template \in Templates : ExpandTemplate(template)
    \/ ExpandAgain

SpecExpand == InitExpand /\ [][NextExpand]_vars

\* the names the value of a name refers to
Deps(ns, name) ==
    IF Defines(ns, name) THEN References(Effective(ns, name)) ELSE {}

\* the names reached from those of S through the values of the namespace
RECURSIVE ReachFrom(_, _)
ReachFrom(ns, S) ==
    LET T == S \cup UNION {Deps(ns, n) : n \in S}
    IN  IF T = S THEN S ELSE ReachFrom(ns, T)

DependsOnItself(ns, name) == name \in ReachFrom(ns, Deps(ns, name))

CycleFree(ns) == \A name \in PrintedVars : ~DependsOnItself(ns, name)

\* every name the template or a value of the namespace refers to is defined
AllDefined(template, ns) ==
    /\ \A n \in References(template) : Defines(ns, n)
    /\ \A v \in PrintedVars : \A n \in Deps(ns, v) : Defines(ns, n)

\* a placeholder of a text that the namespace could still replace
Resolvable(text, ns) == \E n \in References(text) : Defines(ns, n)

\* C24: with a cycle-free namespace that defines every name referred to,
\* expanding a template gives a text no placeholder of which the namespace
\* could still replace, expanding that text again gives the same text, and
\* the namespace is after each expansion what it was before
C24_ExpandIdempotent ==
    /\ (xs.at \in {"expanded", "reexpanded"}
          /\ CycleFree(xs.declared) /\ AllDefined(xs.template, xs.declared))
       => /\ xs.out.err.kind = "none"
          /\ ~Resolvable(xs.out.val, xs.declared)
          /\ xs.ns = xs.declared
    /\ (xs.at = "reexpanded"
          /\ CycleFree(xs.declared) /\ AllDefined(xs.template, xs.declared))
       => /\ xs.again.err.kind = "none"
          /\ xs.again.val = xs.out.val

\* a template whose variable is shadowed by the experiment layer and refers
\* to a second variable has been expanded twice
C24_Witness ==
    /\ xs.at = "reexpanded"
    /\ CycleFree(xs.declared) /\ AllDefined(xs.template, xs.declared)
    /\ xs.template = Ref(VarB)
    /\ VarB \in DOMAIN xs.declared.experiment
    /\ VarB \in DOMAIN xs.declared.workspace
    /\ xs.declared.experiment[VarB] # xs.declared.workspace[VarB]
    /\ Deps(xs.declared, VarB) # {}
    /\ xs.again.val = xs.out.val

\* the chain of a cycle error: it starts at a name of the template, each
\* name is referred to by the value of the one before, and it ends on a
\* name it already holds
NamesResolutionChain(e, template, ns) ==
    /\ Len(e.chain) >= 2
    /\ e.chain[1] \in References(template)
    /\ \A k \in 1..(Len(e.chain) - 1) : e.chain[k + 1] \in Deps(ns, e.chain[k])
    /\ \E k \in 1..(Len(e.chain) - 1) : e.chain[k] = e.chain[Len(e.chain)]

RefersToCycle(template, ns) ==
    \E n \in References(template) : DependsOnItself(ns, n)

C25_WitnessMissing ==
    /\ xs.at = "expanded"
    /\ CycleFree(xs.declared)
    /\ xs.out.err.kind = "missing"
    /\ xs.out.err.template # xs.template

\* ---------------------------------------------------------------------
\* The experiment set (ramble.experiment_set), as workspace_info drives it:
\* set_experiment_context for every declared experiment, then
\* build_experiment_chains, then the same again for one experiment at a
\* time to print it.  Names are sequences of characters, as references to
\* chained experiments are glob patterns matched against them.
\* ---------------------------------------------------------------------

EmptySet == [experiments |-> <<>>, err |-> NoError]

MatrixError(name, variable) ==
    [kind |-> "matrix", experiment |-> name, variable |-> variable]

ChainError(name, reference) ==
    [kind |-> "chain", experiment |-> name, reference |-> reference]

ChainCycleError(name) == [kind |-> "chain cycle", experiment |-> name]

\* a matrix that lists a variable the experiment does not declare
Malformed(decl) ==
    \E k \in 1..Len(decl.matrix) : decl.matrix[k] \notin DOMAIN decl.variables

\* the values of the listed variables taken together one by one, the last
\* point repeated where a list is shorter
RECURSIVE Product_zip(_, _)
Product_zip(variables, matrix) ==
    IF matrix = <<>> THEN << <<>> >>
    ELSE LET rest == Product_zip(variables, Tail(matrix))
             vals == variables[Head(matrix)]
         IN  [k \in 1..Len(vals) |->
                <<[var |-> Head(matrix), val |-> vals[k]]>>
                    \o rest[IF k <= Len(rest) THEN k ELSE Len(rest)]]

\* the cartesian product of the value lists of the listed variables, the
\* first listed variable varying slowest
RECURSIVE Product(_, _)
Product(variables, matrix) ==
    IF matrix = <<>> THEN << <<>> >>
    ELSE LET rest == Product(variables, Tail(matrix))
             vals == variables[Head(matrix)]
         IN  [k \in 1..(Len(vals) * Len(rest)) |->
                <<[var |-> Head(matrix),
                   val |-> vals[((k - 1) \div Len(rest)) + 1]]>>
                    \o rest[((k - 1) % Len(rest)) + 1]]

\* the suffix the chosen values give to the name of an instance
RECURSIVE Suffix(_)
Suffix(binding) ==
    IF binding = <<>> THEN <<>>
    ELSE <<"_">> \o Head(binding).val \o Suffix(Tail(binding))

Instance(decl, binding) ==
    [name        |-> decl.name \o Suffix(binding),
     base        |-> decl.name,
     binding     |-> binding,
     chained     |-> decl.chained,
     chain_order |-> <<>>]

\* experiment_set.set_experiment_context(exp, exp_vars, ..., exp_matrices,
\* ..., exp_chained_exps): one instance per point of the matrix
set_experiment_context(set, decl) ==
    IF Malformed(decl)
    THEN [set EXCEPT !.err =
            MatrixError(decl.name,
                decl.matrix[CHOOSE k \in 1..Len(decl.matrix) :
                                decl.matrix[k] \notin DOMAIN decl.variables])]
    ELSE LET points == Product(decl.variables, decl.matrix)
         IN  [set EXCEPT !.experiments =
                @ \o [k \in 1..Len(points) |-> Instance(decl, points[k])]]

SetNames(set) == [k \in 1..Len(set.experiments) |-> set.experiments[k].name]

\* the known experiment names a reference matches, in the order of the set
Resolved(names, reference) ==
    SelectSeq(names, LAMBDA n : GlobMatch(n, reference))

\* a reference without a match taken for an empty list of predecessors
Unresolved_dropped(names, references) == FALSE

\* some reference matches no known experiment
Unresolved(names, references) ==
    \E k \in 1..Len(references) : Resolved(names, references[k]) = <<>>

RECURSIVE ChainOrder(_, _)
ChainOrder(names, references) ==
    IF references = <<>> THEN <<>>
    ELSE Resolved(names, Head(references)) \o ChainOrder(names, Tail(references))

Predecessors(experiments, name) ==
    UNION {{experiments[k].chain_order[j] : j \in 1..Len(experiments[k].chain_order)} :
              k \in {i \in 1..Len(experiments) : experiments[i].name = name}}

RECURSIVE ChainReach(_, _)
ChainReach(experiments, S) ==
    LET T == S \cup UNION {Predecessors(experiments, n) : n \in S}
    IN  IF T = S THEN S ELSE ChainReach(experiments, T)

\* an experiment that is, directly or not, its own predecessor
OnCycle_direct(experiments, name) == name \in Predecessors(experiments, name)

OnCycle(experiments, name) ==
    name \in ChainReach(experiments, Predecessors(experiments, name))

\* experiment_set.build_experiment_chains()
build_experiment_chains(set) ==
    LET names == SetNames(set)
        lost  == {k \in 1..Len(set.experiments) :
                     Unresolved(names, set.experiments[k].chained)}
        chained == [k \in 1..Len(set.experiments) |->
                      [set.experiments[k] EXCEPT !.chain_order =
                          ChainOrder(names, set.experiments[k].chained)]]
        looped == {k \in 1..Len(chained) : OnCycle(chained, chained[k].name)}
        first(S) == CHOOSE k \in S : \A j \in S : k <= j
    IN  IF lost # {}
        THEN [set EXCEPT !.err =
                ChainError(set.experiments[first(lost)].name,
                    LET refs == set.experiments[first(lost)].chained
                    IN  refs[CHOOSE k \in 1..Len(refs) :
                                 Resolved(names, refs[k]) = <<>>])]
        ELSE IF looped # {}
        THEN [set EXCEPT !.err = ChainCycleError(chained[first(looped)].name)]
        ELSE [set EXCEPT !.experiments = chained]

\* the experiments a workspace declares
NameW == <<"w">>
NameV == <<"v">>

Val1 == <<"1">>
Val2 == <<"2">>
Val3 == <<"3">>
ValA == <<"a">>
ValB == <<"b">>

DeclsW ==
    {[name |-> NameW, variables |-> [x |-> xl, y |-> yl], matrix |-> m,
      chained |-> c] :
        xl \in {<<Val1>>, <<Val1, Val2>>, <<Val1, Val2, Val3>>},
        yl \in {<<ValA>>, <<ValA, ValB>>},
        m \in {<<>>, <<"x">>, <<"x", "y">>, <<"y", "x">>, <<"x", "z">>},
        c \in {<<>>, <<<<"v", "_", "*">>>>, <<<<"v", "_", "1">>>>,
               <<<<"u", "*">>>>, <<<<"v", "*">>, <<"u", "*">>>>}}

DeclsV ==
    {[name |-> NameV, variables |-> [x |-> xl], matrix |-> m, chained |-> c] :
        xl \in {<<Val1>>, <<Val1, Val2>>},
        m \in {<<>>, <<"x">>},
        c \in {<<>>, <<<<"w", "_", "*">>>>, <<<<"w", "_", "1", "_", "a">>>>,
               <<<<"v", "_", "2">>>>}}

InitBuild ==
    /\ InitExperiment
    /\ \E w \in DeclsW, v \in DeclsV :
           xs = [at |-> "declared", decls |-> <<w, v>>, next |-> 1,
                 set |-> EmptySet, shown |-> 0, print |-> EmptySet]

\* workspace_info adding the next declared experiment to the set
SetExperimentContext ==
    /\ xs.at = "declared"
    /\ xs.next <= Len(xs.decls)
    /\ xs.set.err = NoError
    /\ xs' = [xs EXCEPT !.set = set_experiment_context(@, xs.decls[xs.next]),
                        !.next = @ + 1]
    /\ UNCHANGED <<obj, parent, shared, alias, uses_spack, pc, last, err, pre,
                   hist, queued, built, workload, ws>>

\* workspace_info building the chains of the whole set
BuildExperimentChains ==
    /\ xs.at = "declared"
    /\ xs.next > Len(xs.decls)
    /\ xs.set.err = NoError
    /\ xs' = [xs EXCEPT !.set = build_experiment_chains(@), !.at = "built"]
    /\ UNCHANGED <<obj, parent, shared, alias, uses_spack, pc, last, err, pre,
                   hist, queued, built, workload, ws>>

\* workspace_info building the set of the next experiment alone, to print it
PrintExperiment ==
    /\ xs.at = "built"
    /\ xs.set.err = NoError
    /\ xs.print.err = NoError
    /\ xs.shown < Len(xs.decls)
    /\ xs' = [xs EXCEPT
                !.print = build_experiment_chains(
                              set_experiment_context(EmptySet,
                                                     xs.decls[xs.shown + 1])),
                !.shown = @ + 1]
    /\ UNCHANGED <<obj, parent, shared, alias, uses_spack, pc, last, err, pre,
                   hist, queued, built, workload, ws>>

NextBuild ==
    \/ SetExperimentContext
    \/ BuildExperimentChains
    \/ PrintExperiment

SpecBuild == InitBuild /\ [][NextBuild]_vars

\* the instances of the set made from the declaration named base
InstancesOf(set, base) == SelectSeq(set.experiments, LAMBDA e : e.base = base)

RECURSIVE Points(_, _)
Points(variables, matrix) ==
    IF matrix = <<>> THEN 1
    ELSE Len(variables[Head(matrix)]) * Points(variables, Tail(matrix))

\* the declarations already added to the set
Added == IF xs.set.err = NoError THEN xs.next - 1 ELSE xs.next - 2

Matches(set, e) ==
    {n \in {SetNames(set)[k] : k \in 1..Len(set.experiments)} :
        \E r \in 1..Len(e.chained) : GlobMatch(n, e.chained[r])}

Dangling(set) ==
    \E k \in 1..Len(set.experiments) :
        \E r \in 1..Len(set.experiments[k].chained) :
            \A j \in 1..Len(set.experiments) :
                ~GlobMatch(set.experiments[j].name, set.experiments[k].chained[r])

RECURSIVE MatchReach(_, _)
MatchReach(set, S) ==
    LET T == S \cup UNION {Matches(set, set.experiments[k]) :
                              k \in {i \in 1..Len(set.experiments) :
                                        set.experiments[i].name \in S}}
    IN  IF T = S THEN S ELSE MatchReach(set, T)

Cyclic(set) ==
    \E k \in 1..Len(set.experiments) :
        set.experiments[k].name
            \in MatchReach(set, Matches(set, set.experiments[k]))

\* a set whose chains have been built: it failed exactly when a reference
\* matched no experiment or the references close a cycle, and otherwise
\* every chain order holds names of the set only, every match of every
\* reference is in it, and no experiment is its own predecessor
WellChained(set) ==
    /\ (Dangling(set) \/ Cyclic(set)) <=> set.err # NoError
    /\ Dangling(set) => set.err.kind = "chain"
    /\ set.err = NoError =>
        \A k \in 1..Len(set.experiments) :
            LET e == set.experiments[k]
            IN  /\ \A j \in 1..Len(e.chain_order) :
                       \E i \in 1..Len(set.experiments) :
                           set.experiments[i].name = e.chain_order[j]
                /\ \A n \in Matches(set, e) :
                       \E j \in 1..Len(e.chain_order) : e.chain_order[j] = n
                /\ ~OnCycle(set.experiments, e.name)

C27_WitnessDangling ==
    /\ xs.at = "built"
    /\ xs.set.err # NoError
    /\ xs.set.err.kind = "chain"

\* a build that failed on a cycle through two experiments
C27_WitnessCycle ==
    /\ xs.at = "built"
    /\ xs.set.err # NoError
    /\ xs.set.err.kind = "chain cycle"
    /\ ~OnCycle_direct(
          [k \in 1..Len(xs.set.experiments) |->
              [xs.set.experiments[k] EXCEPT !.chain_order =
                  ChainOrder(SetNames(xs.set), xs.set.experiments[k].chained)]],
          xs.set.err.experiment)

\* the set of one experiment failed to build its chains although the whole
\* set had built them
C27_WitnessPrintFails ==
    /\ xs.at = "built"
    /\ xs.set.err = NoError
    /\ xs.shown > 0
    /\ xs.print.err # NoError

====
